---- MODULE Spec2Model ----
(***************************************************************************)
(* Model of useZoomGesture (src/src/index.tsx, the revision with the       *)
(* gallery bridge, lines 1173-2226).                                       *)
(*                                                                         *)
(* Numbers: scales are integers in hundredths (100 = 1.0), lengths are     *)
(* integers in screen units, velocities in units per second.  A quotient   *)
(* that the code computes in floating point is rounded toward zero (Div).  *)
(* An animated shared value x is a pair (x, xTo): x is the value a read    *)
(* returns now, xTo the value the running animation ends at; x = xTo when  *)
(* nothing runs.  `x.value = v` sets both, `x.value = withSpring(v)` sets  *)
(* xTo only.                                                               *)
(*                                                                         *)
(* Scheduling: a runOnJS call is delivered before the next gesture event,  *)
(* gestures start after both layout callbacks, the fingers of a touch      *)
(* sequence land and lift together, and a double tap or a zoomOut() call   *)
(* arrives between touch sequences.  The timer of resetZoomDelayed fires   *)
(* at any moment.  Not modelled: onTouchesCancelled and the bookkeeping    *)
(* of zoomGestureLastTime.                                                 *)
(*                                                                         *)
(* The debounce of the pan end (handlePanOutside) exists only in the       *)
(* earlier revision of the hook (src/src/index.tsx lines 503-1172); it is  *)
(* modelled on its own, by the variable panDebounce and the actions of     *)
(* SpecDebounce.                                                           *)
(*                                                                         *)
(* The variable rubberCall holds one call of rubberBand on its own, with   *)
(* its arguments and its result; only SpecRubberBand uses it.              *)
(***************************************************************************)
EXTENDS Integers, Sequences, FiniteSets, TLC

VARIABLES
  mounted,              \* the view is mounted (its gesture handlers and ref are attached)
  props,                \* the hook's props (fixed after mount)
  sv,                   \* the shared values (one record, fields named as in the source)
  containerDimensions,  \* set by onLayout
  contentDimensions,    \* set by onLayoutContent
  jsQueue,              \* runOnJS calls in flight to the JS thread, in order
  resetTimers,          \* pending setTimeout callbacks of resetZoomDelayed
  touches,              \* fingers on the view
  touchX,               \* x of allTouches[0]
  panState,             \* pan recogniser: idle, began, starting, active, ending, failed
  pinchState,           \* pinch recogniser: idle, starting, active, ending
  panEvent,             \* last pan event payload
  lastInput,            \* the last user input: its kind and, for a double tap, its coordinates
  zoomStateCalls,       \* the last two onZoomStateChange invocations
  parentCall,           \* the last command received by the parent list
  lastSnapInput,        \* overflow and velocity read by the last gallery pan end
  pinchPeak,            \* the highest live scale of the pinch gesture in progress
  panDebounce,          \* earlier revision: the debounce timer of handlePanOutside
  rubberCall,           \* one call of rubberBand: its arguments and its result
  inputs                \* user inputs so far (double taps, zoomOut() calls, fingers put down)

vars == <<mounted, props, sv, containerDimensions, contentDimensions, jsQueue, resetTimers,
          touches, touchX, panState, pinchState, panEvent, lastInput,
          zoomStateCalls, parentCall, lastSnapInput, pinchPeak, panDebounce, rubberCall,
          inputs>>

----------------------------------------------------------------------------
(* Bounds of the model *)
MaxJsQueue == 2
MaxResetTimers == 1
MaxInputs == 2
MaxPanEnds == 4

(* Program constants *)
MAX_SCALE == 400
DOUBLE_TAP_SCALE == 200
RUBBER_BAND_FACTOR == 55
MIN_OVER_SCALE == 50
SNAP_VELOCITY == 500
EDGE_THRESHOLD == 2
DECISION_THRESHOLD == 5
TAP_MAX_DELTA == 25
SAFETY_PADDING == 1
PAN_DEBOUNCE_MS == 10
ZOOMED_EPSILON == 1

Undef == -1
SU == 100

----------------------------------------------------------------------------
(* Arithmetic *)
Max(a, b) == IF a >= b THEN a ELSE b
Min(a, b) == IF a <= b THEN a ELSE b
Abs(a) == IF a >= 0 THEN a ELSE -a
Div(a, b) == IF a >= 0 THEN a \div b ELSE -((-a) \div b)
Coalesce(a, b) == IF a = Undef THEN b ELSE a

clamp(value, min, max) == Max(min, Min(max, value))

----------------------------------------------------------------------------
(* Props *)
DefaultProps ==
  [minScale |-> 100, maxScale |-> MAX_SCALE,
   defaultScale |-> Undef, minZoomScale |-> Undef, maxZoomScale |-> Undef,
   onZoomStateChange |-> TRUE,
   enableSwipeToClose |-> FALSE, parentScrollRef |-> "undefined",
   currentIndex |-> 0, itemWidth |-> 0]

GalleryProps(ref, idx) ==
  [DefaultProps EXCEPT !.enableSwipeToClose = TRUE, !.parentScrollRef = ref,
                       !.currentIndex = idx, !.itemWidth = 400]

PropsSet ==
  { DefaultProps,
    [DefaultProps EXCEPT !.minScale = 50],
    [DefaultProps EXCEPT !.defaultScale = 500, !.maxZoomScale = 500],
    [DefaultProps EXCEPT !.enableSwipeToClose = TRUE],
    GalleryProps("scrollToOffset", 1) }

\* gallery props whose parent cannot be scrolled: no ref, ref.current null,
\* a current object with neither scrollToOffset nor scrollTo
BridgePropsSet ==
  { GalleryProps("undefined", 1),
    GalleryProps("null", 1),
    GalleryProps("neither", 1) }

\* gallery props whose parent exposes both scroll methods, or scrollTo only
ScrollablePropsSet ==
  { GalleryProps("both", 1),
    GalleryProps("scrollTo", 1) }

\* props with a doubleTapConfig: minZoomScale alone, defaultScale with
\* minZoomScale, and maxZoomScale alone on a gallery item
DoubleTapPropsSet ==
  { [DefaultProps EXCEPT !.minZoomScale = 150],
    [DefaultProps EXCEPT !.defaultScale = 300, !.minZoomScale = 150],
    [GalleryProps("scrollToOffset", 1) EXCEPT !.maxZoomScale = 150] }

\* props with a maxScale that a pinch of the input set overshoots
PinchPanPropsSet ==
  { [DefaultProps EXCEPT !.maxScale = 150],
    [GalleryProps("scrollToOffset", 1) EXCEPT !.maxScale = 150] }

hasParentScroll == props.parentScrollRef # "undefined" /\ props.itemWidth > 0

----------------------------------------------------------------------------
(* Inputs *)
ContainerLayouts == { [width |-> 300, height |-> 300] }
ContentLayouts == { [width |-> 300, height |-> 300] }
\* sizes a later layout pass may report, container then content: content of
\* about half the container's width and a third of its height
Relayouts == { << [width |-> 300, height |-> 300], [width |-> 151, height |-> 100] >> }
TapPoints == { <<200, 200>>, <<0, 0>> }
\* a double tap in the bottom right corner, a touch-move to the left
FarTapPoints == { <<300, 300>> }
TouchMoveLeftXs == { 90 }
\* arguments of rubberBand: values on both sides of the bounds, the bounds
\* -max..max of getTranslateBounds, and the container sizes 0 (before layout),
\* 100 and 300
RubberValues == { -600, -300, -152, -149, -60, -2, 0, 2, 60, 149, 152, 300, 600 }
RubberBounds == { 0, 50, 149 }
RubberDimensions == { 0, 100, 300 }
TouchStartXs == { 100 }
TouchMoveXs == { 103, 110 }
PanTranslations == { <<299, 0>>, <<199, 0>>, <<-299, 0>>, <<0, 300>> }
\* pan translations with a vertical part, past either horizontal bound
DiagonalPanTranslations == { <<299, 300>>, <<-299, -300>> }
PanVelocities == { <<0, 0>>, <<500, 0>>, <<600, 0>>, <<-600, 0>> }
PinchScales == { 50, 100, 200 }
\* pinch ratios from a twentieth to the triple
PinchRatios == { 5, 50, 120, 300 }
PinchStartFocals == { <<150, 150>> }
PinchFocals == { <<250, 150>> }

----------------------------------------------------------------------------
(* Messages of runOnJS *)
ZoomMsg(v) == [fn |-> "onZoomStateChange", arg |-> IF v THEN 1 ELSE 0, animated |-> FALSE]
ScrollMsg(offset, animated) == [fn |-> "scrollParent", arg |-> offset, animated |-> animated]
ResetMsg == [fn |-> "resetZoomDelayed", arg |-> 300, animated |-> FALSE]
HandlePanOutsideMsg == [fn |-> "handlePanOutside", arg |-> 0, animated |-> FALSE]

runOnJS(s, msg) == [s EXCEPT !.js = Append(@, msg)]

Cur == [js |-> jsQueue] @@ sv

----------------------------------------------------------------------------
(* Helpers *)

\* variant: half of the excess, without the safety padding
getTranslateBounds_NoPadding(currentScale) ==
  LET container == containerDimensions
      content == contentDimensions
      excessWidth == Max(0, content.width * currentScale - container.width * SU)
      excessHeight == Max(0, content.height * currentScale - container.height * SU)
  IN [maxX |-> excessWidth \div (2 * SU),
      maxY |-> excessHeight \div (2 * SU)]

getTranslateBounds(currentScale) ==
  LET container == containerDimensions
      content == contentDimensions
      \* excess in hundredths of a unit: (content * scale - container) * 100
      excessWidth == Max(0, content.width * currentScale - container.width * SU)
      excessHeight == Max(0, content.height * currentScale - container.height * SU)
  IN [maxX |-> Max(0, (excessWidth \div (2 * SU)) - SAFETY_PADDING),
      maxY |-> Max(0, (excessHeight \div (2 * SU)) - SAFETY_PADDING)]

clampTranslation(tx, ty, currentScale) ==
  LET bounds == getTranslateBounds(currentScale)
  IN [x |-> clamp(tx, -bounds.maxX, bounds.maxX),
      y |-> clamp(ty, -bounds.maxY, bounds.maxY)]

\* (1 - 1/(o*F/d + 1)) * d  =  o*F*d / (o*F + d), F = 0.55; 0 when d = 0
rubberBandExcess(overscroll, dimension) ==
  Div(overscroll * RUBBER_BAND_FACTOR * dimension,
      overscroll * RUBBER_BAND_FACTOR + dimension * SU)

\* variant: the overscroll scaled by RUBBER_BAND_FACTOR, dimension unused
rubberBand_Linear(value, min, max, dimension) ==
  IF value < min THEN min - Div((min - value) * RUBBER_BAND_FACTOR, SU)
  ELSE IF value > max THEN max + Div((value - max) * RUBBER_BAND_FACTOR, SU)
  ELSE value

rubberBand(value, min, max, dimension) ==
  IF value < min THEN min - rubberBandExcess(min - value, dimension)
  ELSE IF value > max THEN max + rubberBandExcess(value - max, dimension)
  ELSE value

\* earlier revision: the content scaled to the container's width
getContentContainerSize ==
  LET containerWidth == containerDimensions.width
      contentWidth == contentDimensions.width
      contentHeight == contentDimensions.height
  IN IF contentWidth <= 0
     THEN [width |-> containerWidth, height |-> 0]
     ELSE [width |-> containerWidth,
           height |-> Div(contentHeight * containerWidth, contentWidth)]

applyRubberBandTranslation(tx, ty, currentScale) ==
  LET container == containerDimensions
      bounds == getTranslateBounds(currentScale)
  IN [x |-> rubberBand(tx, -bounds.maxX, bounds.maxX, container.width),
      y |-> rubberBand(ty, -bounds.maxY, bounds.maxY, container.height)]

\* withDecay({velocity, clamp}): the value coasts about velocity/2 further
\* (deceleration 0.998 per ms) and ends inside the clamp range
withDecay(current, velocity, lo, hi) == clamp(current + Div(velocity, 2), lo, hi)

applyBoundaryConstraints(s, targetScale) ==
  LET clampedScale == clamp(targetScale, props.minScale, props.maxScale)
      c == clampTranslation(s.translateX, s.translateY, clampedScale)
  IN [s EXCEPT !.scaleTo = clampedScale,
               !.translateXTo = c.x,
               !.translateYTo = c.y,
               !.savedScale = clampedScale,
               !.savedTranslateX = c.x,
               !.savedTranslateY = c.y,
               !.isZoomedIn = (clampedScale > props.minScale)]

----------------------------------------------------------------------------
(* Zoom actions *)

doubleTapTargetScale ==
  LET targetScale == Coalesce(props.defaultScale,
                              Coalesce(props.minZoomScale, DOUBLE_TAP_SCALE))
  IN clamp(targetScale,
           Coalesce(props.minZoomScale, props.minScale),
           Coalesce(props.maxZoomScale, props.maxScale))

\* variant: the scale ratio is inverted
focalTranslate_InvertedRatio(focalOffset, currentT, currentScale, targetScale) ==
  focalOffset - Div((focalOffset - currentT) * currentScale, targetScale)

\* newTranslate = focalOffset - ((focalOffset - translate) / scale) * targetScale
focalTranslate(focalOffset, currentT, currentScale, targetScale) ==
  focalOffset - Div((focalOffset - currentT) * targetScale, currentScale)

zoomIn(s, focalX, focalY) ==
  LET container == containerDimensions
      clampedTargetScale == doubleTapTargetScale
      centerX == container.width \div 2
      centerY == container.height \div 2
      focalOffsetX == focalX - centerX
      focalOffsetY == focalY - centerY
      newTx == focalTranslate(focalOffsetX, s.translateX, s.scale, clampedTargetScale)
      newTy == focalTranslate(focalOffsetY, s.translateY, s.scale, clampedTargetScale)
      clamped == clampTranslation(newTx, newTy, clampedTargetScale)
      fired == IF ~s.isZoomedIn /\ props.onZoomStateChange
               THEN runOnJS(s, ZoomMsg(TRUE)) ELSE s
  IN [fired EXCEPT !.scaleTo = clampedTargetScale,
                   !.translateXTo = clamped.x,
                   !.translateYTo = clamped.y,
                   !.savedScale = clampedTargetScale,
                   !.savedTranslateX = clamped.x,
                   !.savedTranslateY = clamped.y,
                   !.isZoomedIn = TRUE]

\* variant: the callback fires whether or not the view was zoomed in
zoomOut_AlwaysFires(s) ==
  LET fired == IF props.onZoomStateChange
               THEN runOnJS(s, ZoomMsg(FALSE)) ELSE s
  IN [fired EXCEPT !.scaleTo = props.minScale,
                   !.translateXTo = 0,
                   !.translateYTo = 0,
                   !.savedScale = props.minScale,
                   !.savedTranslateX = 0,
                   !.savedTranslateY = 0,
                   !.isZoomedIn = FALSE]

zoomOut(s) ==
  LET fired == IF s.isZoomedIn /\ props.onZoomStateChange
               THEN runOnJS(s, ZoomMsg(FALSE)) ELSE s
  IN [fired EXCEPT !.scaleTo = props.minScale,
                   !.translateXTo = 0,
                   !.translateYTo = 0,
                   !.savedScale = props.minScale,
                   !.savedTranslateX = 0,
                   !.savedTranslateY = 0,
                   !.isZoomedIn = FALSE]

onDoubleTap(s, x, y) == IF s.isZoomedIn THEN zoomOut(s) ELSE zoomIn(s, x, y)

----------------------------------------------------------------------------
(* JS-thread helpers *)

\* variant: the guard on parentScrollRef.current is missing, the call on null throws
scrollParentMethod_NoNullGuard ==
  CASE props.parentScrollRef = "undefined" -> "none"
    [] props.parentScrollRef = "null" -> "throw"
    [] props.parentScrollRef \in {"scrollToOffset", "both"} -> "scrollToOffset"
    [] props.parentScrollRef = "scrollTo" -> "scrollTo"
    [] OTHER -> "none"

\* scrollParent: the method of the parent that receives the command, if any
scrollParentMethod ==
  CASE props.parentScrollRef \in {"undefined", "null"} -> "none"
    [] props.parentScrollRef \in {"scrollToOffset", "both"} -> "scrollToOffset"
    [] props.parentScrollRef = "scrollTo" -> "scrollTo"
    [] OTHER -> "none"

\* variant: the timer callback leaves the saved values and the flag as they are
resetZoomNow_AnimatesOnly(s) ==
  [s EXCEPT !.scaleTo = props.minScale,
            !.translateXTo = 0,
            !.translateYTo = 0]

\* the body of the setTimeout callback of resetZoomDelayed
resetZoomNow(s) ==
  [s EXCEPT !.scaleTo = props.minScale,
            !.translateXTo = 0,
            !.translateYTo = 0,
            !.savedScale = props.minScale,
            !.savedTranslateX = 0,
            !.savedTranslateY = 0,
            !.isZoomedIn = FALSE]

\* onZoomStateChange(v) runs on the JS thread
recordZoomStateCall(calls, v) == [prev |-> calls.last, last |-> IF v THEN "true" ELSE "false"]

----------------------------------------------------------------------------
(* Pan gesture handlers *)

panOnTouchesDown(s, numberOfTouches, x) ==
  IF numberOfTouches >= 1
  THEN LET bounds == getTranslateBounds(s.scale)
       IN [s EXCEPT !.isAtLeftEdge = (s.translateX >= bounds.maxX - EDGE_THRESHOLD),
                    !.isAtRightEdge = (s.translateX <= -bounds.maxX + EDGE_THRESHOLD),
                    !.panStartX = x]
  ELSE s

\* variant: the zoomed test of the single-finger decision is negated
panOnTouchesMove_NegatedZoomTest(s, numberOfTouches, x) ==
  LET zoomed == s.scale > props.minScale + ZOOMED_EPSILON
  IN IF numberOfTouches = 2 THEN "activate"
     ELSE IF zoomed THEN "fail"
     ELSE "activate"

\* the decision of onTouchesMove in the UNDETERMINED/BEGAN phase:
\* "activate", "fail" or "wait" (return without deciding)
panOnTouchesMove(s, numberOfTouches, x) ==
  LET zoomed == s.scale > props.minScale + ZOOMED_EPSILON
      deltaX == x - s.panStartX
      bounds == getTranslateBounds(s.scale)
  IN IF numberOfTouches = 2 THEN "activate"
     ELSE IF ~zoomed THEN "fail"
     ELSE IF props.enableSwipeToClose /\ hasParentScroll THEN "activate"
     ELSE IF props.enableSwipeToClose /\ numberOfTouches = 1
     THEN IF bounds.maxX = 0 THEN "fail"
          ELSE IF Abs(deltaX) < DECISION_THRESHOLD THEN "wait"
          ELSE IF s.isAtLeftEdge /\ deltaX > 0 THEN "fail"
          ELSE IF s.isAtRightEdge /\ deltaX < 0 THEN "fail"
          ELSE "activate"
     ELSE "activate"

\* variant: the decision is taken again in the ACTIVE state
panOnTouchesMoveInState_DecidesWhenActive(state, s, numberOfTouches, x) ==
  panOnTouchesMove(s, numberOfTouches, x)

\* onTouchesMove for an event in the given recogniser state: in the ACTIVE
\* state it returns at once, outside UNDETERMINED/BEGAN it does nothing
panOnTouchesMoveInState(state, s, numberOfTouches, x) ==
  IF state = "active" THEN "wait"
  ELSE IF state = "began" THEN panOnTouchesMove(s, numberOfTouches, x)
  ELSE "wait"

panOnStart(s) ==
  [s EXCEPT !.isPanning = TRUE,
            !.accumulatedOverflow = 0,
            !.savedTranslateX = s.translateX,
            !.savedTranslateY = s.translateY]

\* variant: the overflow is reported as a magnitude, without its sign
panOverflow_Magnitude(newTx, maxX) ==
  IF newTx > maxX THEN newTx - maxX
  ELSE IF newTx < -maxX THEN -(newTx + maxX)
  ELSE 0

\* overflow past the horizontal bound of a translation (0 inside the bounds)
panOverflow(newTx, maxX) ==
  IF newTx > maxX THEN newTx - maxX
  ELSE IF newTx < -maxX THEN newTx + maxX
  ELSE 0

\* variant: the overflow branch also writes the vertical translation
panOnUpdate_OverflowMovesY(s, event) ==
  LET bounds == getTranslateBounds(s.scale)
      newTx == s.savedTranslateX + event.translationX
      newTy == s.savedTranslateY + event.translationY
  IN IF props.enableSwipeToClose /\ hasParentScroll
     THEN LET overflow == panOverflow(newTx, bounds.maxX)
              pinnedTx == clamp(newTx, -bounds.maxX, bounds.maxX)
          IN IF overflow # 0
             THEN LET targetOffset == props.currentIndex * props.itemWidth - overflow
                      sent == runOnJS(s, ScrollMsg(targetOffset, FALSE))
                      rubberY == applyRubberBandTranslation(pinnedTx, newTy, s.scale)
                  IN [sent EXCEPT !.accumulatedOverflow = overflow,
                                  !.translateX = pinnedTx,
                                  !.translateXTo = pinnedTx,
                                  !.translateY = rubberY.y,
                                  !.translateYTo = rubberY.y]
             ELSE LET rubberY == applyRubberBandTranslation(newTx, newTy, s.scale)
                  IN [s EXCEPT !.accumulatedOverflow = 0,
                               !.translateX = newTx,
                               !.translateXTo = newTx,
                               !.translateY = rubberY.y,
                               !.translateYTo = rubberY.y]
     ELSE LET rubber == applyRubberBandTranslation(newTx, newTy, s.scale)
              rubberY == applyRubberBandTranslation(rubber.x, newTy, s.scale)
          IN [s EXCEPT !.translateX = rubber.x,
                       !.translateXTo = rubber.x,
                       !.translateY = rubberY.y,
                       !.translateYTo = rubberY.y]

panOnUpdate(s, event) ==
  LET bounds == getTranslateBounds(s.scale)
      newTx == s.savedTranslateX + event.translationX
      newTy == s.savedTranslateY + event.translationY
  IN IF props.enableSwipeToClose /\ hasParentScroll
     THEN LET overflow == panOverflow(newTx, bounds.maxX)
              pinnedTx == clamp(newTx, -bounds.maxX, bounds.maxX)
          IN IF overflow # 0
             THEN LET targetOffset == props.currentIndex * props.itemWidth - overflow
                      sent == runOnJS(s, ScrollMsg(targetOffset, FALSE))
                  IN [sent EXCEPT !.accumulatedOverflow = overflow,
                                  !.translateX = pinnedTx,
                                  !.translateXTo = pinnedTx]
             ELSE LET rubberY == applyRubberBandTranslation(newTx, newTy, s.scale)
                  IN [s EXCEPT !.accumulatedOverflow = 0,
                               !.translateX = newTx,
                               !.translateXTo = newTx,
                               !.translateY = rubberY.y,
                               !.translateYTo = rubberY.y]
     ELSE LET rubber == applyRubberBandTranslation(newTx, newTy, s.scale)
              rubberY == applyRubberBandTranslation(rubber.x, newTy, s.scale)
          IN [s EXCEPT !.translateX = rubber.x,
                       !.translateXTo = rubber.x,
                       !.translateY = rubberY.y,
                       !.translateYTo = rubberY.y]

\* variant: the snap threshold is half of the item width
snapTarget_HalfWidth(overflow, velocity) ==
  LET shouldSnapToNext == (2 * overflow < -props.itemWidth)
                            \/ (overflow < 0 /\ velocity < -SNAP_VELOCITY)
      shouldSnapToPrev == (2 * overflow > props.itemWidth)
                            \/ (overflow > 0 /\ velocity > SNAP_VELOCITY)
  IN IF shouldSnapToNext THEN "next"
     ELSE IF shouldSnapToPrev THEN "prev"
     ELSE "current"

\* the snap decision of onEnd: "next", "prev" or "current"
snapTarget(overflow, velocity) ==
  LET \* overflow < -itemWidth * 0.3, overflow > itemWidth * 0.3
      shouldSnapToNext == (10 * overflow < -3 * props.itemWidth)
                            \/ (overflow < 0 /\ velocity < -SNAP_VELOCITY)
      shouldSnapToPrev == (10 * overflow > 3 * props.itemWidth)
                            \/ (overflow > 0 /\ velocity > SNAP_VELOCITY)
  IN IF shouldSnapToNext THEN "next"
     ELSE IF shouldSnapToPrev THEN "prev"
     ELSE "current"

\* variant: the snap back to the current item also schedules the zoom reset
panOnEndSnap_AlwaysResets(s, event) ==
  LET target == snapTarget(s.accumulatedOverflow, event.velocityX)
      index == CASE target = "next" -> props.currentIndex + 1
                 [] target = "prev" -> props.currentIndex - 1
                 [] OTHER -> props.currentIndex
      sent == runOnJS(runOnJS(s, ScrollMsg(index * props.itemWidth, TRUE)), ResetMsg)
  IN [sent EXCEPT !.isPanning = FALSE, !.accumulatedOverflow = 0]

panOnEndSnap(s, event) ==
  LET target == snapTarget(s.accumulatedOverflow, event.velocityX)
      sent == CASE target = "next" ->
                     runOnJS(runOnJS(s, ScrollMsg((props.currentIndex + 1) * props.itemWidth, TRUE)),
                             ResetMsg)
                [] target = "prev" ->
                     runOnJS(runOnJS(s, ScrollMsg((props.currentIndex - 1) * props.itemWidth, TRUE)),
                             ResetMsg)
                [] OTHER ->
                     runOnJS(s, ScrollMsg(props.currentIndex * props.itemWidth, TRUE))
  IN [sent EXCEPT !.isPanning = FALSE, !.accumulatedOverflow = 0]

\* variant: the release decays on both axes even when out of bounds
panOnEndRelease_AlwaysDecays(s, event) ==
  LET bounds == getTranslateBounds(s.scale)
  IN [s EXCEPT !.translateXTo = withDecay(s.translateX, event.velocityX,
                                          -bounds.maxX, bounds.maxX),
               !.translateYTo = withDecay(s.translateY, event.velocityY,
                                          -bounds.maxY, bounds.maxY),
               !.isPanning = FALSE,
               !.savedTranslateX = clamp(s.savedTranslateX + event.translationX,
                                         -bounds.maxX, bounds.maxX),
               !.savedTranslateY = clamp(s.savedTranslateY + event.translationY,
                                         -bounds.maxY, bounds.maxY)]

panOnEndRelease(s, event) ==
  LET bounds == getTranslateBounds(s.scale)
      currentTx == s.translateX
      currentTy == s.translateY
      isOutOfBoundsX == currentTx < -bounds.maxX \/ currentTx > bounds.maxX
      isOutOfBoundsY == currentTy < -bounds.maxY \/ currentTy > bounds.maxY
      moved == IF isOutOfBoundsX \/ isOutOfBoundsY
               THEN [s EXCEPT !.translateXTo = clamp(currentTx, -bounds.maxX, bounds.maxX),
                              !.translateYTo = clamp(currentTy, -bounds.maxY, bounds.maxY)]
               ELSE [s EXCEPT !.translateXTo = withDecay(currentTx, event.velocityX,
                                                         -bounds.maxX, bounds.maxX),
                              !.translateYTo = withDecay(currentTy, event.velocityY,
                                                         -bounds.maxY, bounds.maxY)]
  IN [moved EXCEPT !.isPanning = FALSE,
                   !.savedTranslateX = clamp(s.savedTranslateX + event.translationX,
                                             -bounds.maxX, bounds.maxX),
                   !.savedTranslateY = clamp(s.savedTranslateY + event.translationY,
                                             -bounds.maxY, bounds.maxY)]

\* variant: the snap branch is never taken
takesSnapBranch_Never(s) == FALSE

takesSnapBranch(s) ==
  props.enableSwipeToClose /\ hasParentScroll /\ s.accumulatedOverflow # 0

\* variant: the snap decision does not look at the end velocity
panOnEnd_IgnoresVelocity(s, event) ==
  IF takesSnapBranch(s)
  THEN panOnEndSnap(s, [event EXCEPT !.velocityX = 0])
  ELSE panOnEndRelease(s, event)

panOnEnd(s, event) ==
  IF takesSnapBranch(s) THEN panOnEndSnap(s, event) ELSE panOnEndRelease(s, event)

----------------------------------------------------------------------------
(* Pinch gesture handlers *)

pinchOnStart(s, event) ==
  [s EXCEPT !.isPinching = TRUE,
            !.savedScale = s.scale,
            !.savedTranslateX = s.translateX,
            !.savedTranslateY = s.translateY,
            !.pinchFocalX = event.focalX,
            !.pinchFocalY = event.focalY]

\* variant: the rubber band without the limits MIN_OVER_SCALE and 1.5
pinchLiveScale_Unlimited(savedScale, eventScale) ==
  LET newScale == Div(savedScale * eventScale, SU)
  IN IF newScale < props.minScale
     THEN props.minScale - Div((props.minScale - newScale) * RUBBER_BAND_FACTOR, SU)
     ELSE IF newScale > props.maxScale
     THEN props.maxScale + Div((newScale - props.maxScale) * RUBBER_BAND_FACTOR, SU)
     ELSE newScale

\* the live scale of a pinch update: rubber band outside [minScale, maxScale]
pinchLiveScale(savedScale, eventScale) ==
  LET newScale == Div(savedScale * eventScale, SU)
  IN IF newScale < props.minScale
     THEN Max(props.minScale - Div((props.minScale - newScale) * RUBBER_BAND_FACTOR, SU),
              Div(props.minScale * MIN_OVER_SCALE, SU))
     ELSE IF newScale > props.maxScale
     THEN Min(props.maxScale + Div((newScale - props.maxScale) * RUBBER_BAND_FACTOR, SU),
              Div(props.maxScale * 150, SU))
     ELSE newScale

\* focalOffset * (1 - scaleRatio) + savedTranslate * scaleRatio, scaleRatio = newScale / savedScale
pinchTranslate(focalOffset, savedTranslate, savedScale, newScale) ==
  Div(focalOffset * (savedScale - newScale) + savedTranslate * newScale, savedScale)

pinchOnUpdate(s, event) ==
  LET container == containerDimensions
      centerX == container.width \div 2
      centerY == container.height \div 2
      newScale == pinchLiveScale(s.savedScale, event.scale)
      \* focalBlend = 0.3
      effectiveFocalX == s.pinchFocalX + Div((event.focalX - s.pinchFocalX) * 3, 10)
      effectiveFocalY == s.pinchFocalY + Div((event.focalY - s.pinchFocalY) * 3, 10)
      focalOffsetX == effectiveFocalX - centerX
      focalOffsetY == effectiveFocalY - centerY
      newTx == pinchTranslate(focalOffsetX, s.savedTranslateX, s.savedScale, newScale)
      newTy == pinchTranslate(focalOffsetY, s.savedTranslateY, s.savedScale, newScale)
  IN [s EXCEPT !.scale = newScale, !.scaleTo = newScale,
               !.translateX = newTx, !.translateXTo = newTx,
               !.translateY = newTy, !.translateYTo = newTy]

pinchOnEnd(s) ==
  LET wasZoomed == s.isZoomedIn
      constrained == applyBoundaryConstraints(s, s.scale)
      \* scale.value still reads the value the spring starts from
      finalScale == clamp(constrained.scale, props.minScale, props.maxScale)
      isNowZoomed == finalScale > props.minScale
      fired == IF wasZoomed # isNowZoomed /\ props.onZoomStateChange
               THEN runOnJS(constrained, ZoomMsg(isNowZoomed)) ELSE constrained
  IN [fired EXCEPT !.isPinching = FALSE]

----------------------------------------------------------------------------
(* State after mount *)

InitSv ==
  [scale |-> SU, scaleTo |-> SU, savedScale |-> SU,
   translateX |-> 0, translateXTo |-> 0, translateY |-> 0, translateYTo |-> 0,
   savedTranslateX |-> 0, savedTranslateY |-> 0,
   pinchFocalX |-> 0, pinchFocalY |-> 0, isPinching |-> FALSE,
   isPanning |-> FALSE,
   isAtLeftEdge |-> FALSE, isAtRightEdge |-> FALSE, panStartX |-> 0,
   accumulatedOverflow |-> 0,
   isZoomedIn |-> FALSE]

Input(kind, x, y) == [kind |-> kind, x |-> x, y |-> y]

NoPanEvent == [translationX |-> 0, translationY |-> 0, velocityX |-> 0, velocityY |-> 0]

\* earlier revision: handlePanOutsideTimeoutId.current is undefined (0), no
\* timer pends, velocity is (0, 0) and applyPanDecay has not run;
\* callsSinceTimer counts the calls of handlePanOutside since a timer last
\* expired, ends the end events so far
InitPanDebounce ==
  [timeoutId |-> 0, pending |-> {}, velocity |-> 0,
   decayRuns |-> 0, decayVelocity |-> 0, callsSinceTimer |-> 0, ends |-> 0]

\* no call of rubberBand on its own
NoRubber ==
  [value |-> 0, min |-> 0, max |-> 0, dimension |-> 0, called |-> FALSE, result |-> 0]

\* the view after mount, whatever the props are
MountedView ==
  /\ mounted = TRUE
  /\ sv = InitSv
  /\ containerDimensions = [width |-> 0, height |-> 0]
  /\ contentDimensions = [width |-> 1, height |-> 1]
  /\ jsQueue = << >>
  /\ resetTimers = 0
  /\ touches = 0
  /\ touchX = 0
  /\ panState = "idle"
  /\ pinchState = "idle"
  /\ panEvent = NoPanEvent
  /\ lastInput = Input("none", 0, 0)
  /\ zoomStateCalls = [prev |-> "none", last |-> "none"]
  /\ parentCall = [method |-> "none", offset |-> 0, animated |-> FALSE]
  /\ lastSnapInput = [overflow |-> 0, velocityX |-> 0]
  /\ pinchPeak = 0
  /\ panDebounce = InitPanDebounce
  /\ inputs = 0

\* the state after mount, whatever the props are
Mounted == MountedView /\ rubberCall = NoRubber

Init == props \in PropsSet /\ Mounted

\* mount with a doubleTapConfig
InitDoubleTap == props \in DoubleTapPropsSet /\ Mounted

\* mount in a parent that is a list with both methods or a plain scroll view
InitScrollable == props \in ScrollablePropsSet /\ Mounted

\* mount with a low maxScale
InitPinchPan == props \in PinchPanPropsSet /\ Mounted

\* mount with a parent ref that is absent, unset or without a scroll method
InitBridge == props \in BridgePropsSet /\ Mounted

\* a handler's result becomes the new shared values and the new runOnJS queue
Commit(n) ==
  /\ Len(n.js) <= MaxJsQueue
  /\ sv' = [f \in DOMAIN sv |-> n[f]]
  /\ jsQueue' = n.js

\* A runOnJS call is delivered before the next gesture event or frame arrives:
\* the events of the UI thread are taken while the JS thread has nothing queued.
jsIdle == jsQueue = << >>

\* the inputs explored per configuration: the default configuration, whose
\* state space is the smallest, is explored one input deeper than the others
InputBudget == IF props = DefaultProps THEN MaxInputs + 1 ELSE MaxInputs

\* the layout pass after mount has delivered both sizes
laidOut == containerDimensions.width > 0 /\ contentDimensions.width > 1

----------------------------------------------------------------------------
(* Layout *)

OnLayout ==
  /\ mounted
  /\ jsIdle
  /\ containerDimensions.width = 0
  /\ \E d \in ContainerLayouts : containerDimensions' = d
  /\ UNCHANGED <<rubberCall, panDebounce, pinchPeak, mounted, props, sv, contentDimensions, jsQueue, resetTimers, touches, touchX,
                 panState, pinchState, panEvent, lastInput, zoomStateCalls, parentCall,
                 lastSnapInput, inputs>>

OnLayoutContent ==
  /\ mounted
  /\ jsIdle
  /\ contentDimensions.width = 1
  /\ \E d \in ContentLayouts : contentDimensions' = d
  /\ UNCHANGED <<rubberCall, panDebounce, pinchPeak, mounted, props, sv, containerDimensions, jsQueue, resetTimers, touches, touchX,
                 panState, pinchState, panEvent, lastInput, zoomStateCalls, parentCall,
                 lastSnapInput, inputs>>

\* the content is laid out empty
OnLayoutContentEmpty ==
  /\ mounted
  /\ jsIdle
  /\ contentDimensions.width = 1
  /\ contentDimensions' = [width |-> 0, height |-> 0]
  /\ UNCHANGED <<rubberCall, panDebounce, pinchPeak, mounted, props, sv,
                 containerDimensions, jsQueue, resetTimers, touches, touchX, panState,
                 pinchState, panEvent, lastInput, zoomStateCalls, parentCall,
                 lastSnapInput, inputs>>

\* a later layout pass reports new sizes, before any gesture
Relayout ==
  /\ mounted
  /\ jsIdle
  /\ laidOut
  /\ inputs = 0
  /\ \E l \in Relayouts :
       /\ containerDimensions' = l[1]
       /\ contentDimensions' = l[2]
  /\ UNCHANGED <<rubberCall, panDebounce, pinchPeak, mounted, props, sv, jsQueue, resetTimers, touches, touchX,
                 panState, pinchState, panEvent, lastInput, zoomStateCalls, parentCall,
                 lastSnapInput, inputs>>

----------------------------------------------------------------------------
(* Double tap and programmatic zoom out *)

TapEnd ==
  /\ mounted
  /\ jsIdle
  /\ laidOut
  /\ touches = 0
  /\ panState = "idle"
  /\ pinchState = "idle"
  /\ inputs < InputBudget
  /\ inputs' = inputs + 1
  /\ \E p \in TapPoints :
       /\ lastInput' = Input("tap", p[1], p[2])
       /\ Commit(onDoubleTap(Cur, p[1], p[2]))
  /\ UNCHANGED <<rubberCall, panDebounce, pinchPeak, mounted, props, containerDimensions, contentDimensions, resetTimers, touches, touchX,
                 panState, pinchState, panEvent, zoomStateCalls, parentCall, lastSnapInput>>

\* a double tap that arrives before the layout callbacks have delivered sizes
TapEndBeforeLayout ==
  /\ mounted
  /\ jsIdle
  /\ ~laidOut
  /\ touches = 0
  /\ panState = "idle"
  /\ pinchState = "idle"
  /\ inputs < InputBudget
  /\ inputs' = inputs + 1
  /\ \E p \in TapPoints :
       /\ lastInput' = Input("tap", p[1], p[2])
       /\ Commit(onDoubleTap(Cur, p[1], p[2]))
  /\ UNCHANGED <<rubberCall, panDebounce, pinchPeak, mounted, props,
                 containerDimensions, contentDimensions, resetTimers, touches, touchX,
                 panState, pinchState, panEvent, zoomStateCalls, parentCall,
                 lastSnapInput>>

\* a double tap far from the centre
TapEndFar ==
  /\ mounted
  /\ jsIdle
  /\ laidOut
  /\ touches = 0
  /\ panState = "idle"
  /\ pinchState = "idle"
  /\ inputs < InputBudget
  /\ inputs' = inputs + 1
  /\ \E p \in FarTapPoints :
       /\ lastInput' = Input("tap", p[1], p[2])
       /\ Commit(onDoubleTap(Cur, p[1], p[2]))
  /\ UNCHANGED <<rubberCall, panDebounce, pinchPeak, mounted, props, containerDimensions,
                 contentDimensions, resetTimers, touches, touchX, panState, pinchState,
                 panEvent, zoomStateCalls, parentCall, lastSnapInput>>

ZoomOutCall ==
  /\ mounted
  /\ jsIdle
  /\ laidOut
  /\ touches = 0
  /\ panState = "idle"
  /\ pinchState = "idle"
  /\ inputs < InputBudget
  /\ inputs' = inputs + 1
  /\ lastInput' = Input("zoomOut", 0, 0)
  /\ Commit(zoomOut(Cur))
  /\ UNCHANGED <<rubberCall, panDebounce, pinchPeak, mounted, props, containerDimensions, contentDimensions, resetTimers, touches, touchX,
                 panState, pinchState, panEvent, zoomStateCalls, parentCall,
                 lastSnapInput>>

\* The second tap of a double tap is a touch the pan recogniser sees too: on a
\* zoomed view the pan activates on it, and when the finger lifts within
\* TAP_MAX_DELTA the tap's onEnd may run before the pan's onEnd.  (The other
\* order is PanEnd followed by TapEnd.)
TapEndBeforePanEnd ==
  /\ mounted
  /\ jsIdle
  /\ touches = 0
  /\ panState = "ending"
  /\ Abs(panEvent.translationX) <= TAP_MAX_DELTA
  /\ Abs(panEvent.translationY) <= TAP_MAX_DELTA
  /\ inputs < InputBudget
  /\ inputs' = inputs + 1
  /\ \E p \in TapPoints :
       /\ lastInput' = Input("tap", p[1], p[2])
       /\ Commit(onDoubleTap(Cur, p[1], p[2]))
  /\ UNCHANGED <<rubberCall, panDebounce, pinchPeak, mounted, props, containerDimensions, contentDimensions,
                 resetTimers, touches, touchX, panState, pinchState, panEvent,
                 zoomStateCalls, parentCall, lastSnapInput>>

----------------------------------------------------------------------------
(* Touches: both recognisers see the same fingers; the fingers of a touch   *)
(* sequence land together (one for a pan, two for a pinch with pan) and     *)
(* lift together.                                                          *)

TouchDown ==
  /\ mounted
  /\ jsIdle
  /\ laidOut
  /\ touches = 0
  /\ panState = "idle"
  /\ pinchState = "idle"
  /\ \E n \in 1..2 :
       /\ inputs + n <= InputBudget
       /\ inputs' = inputs + n
       /\ touches' = n
       /\ pinchState' = IF n = 2 THEN "starting" ELSE "idle"
       /\ lastInput' = Input("touch", n, 0)
       /\ \E x \in TouchStartXs :
            /\ touchX' = x
            /\ Commit(panOnTouchesDown(Cur, n, x))
  /\ panState' = "began"
  /\ UNCHANGED <<rubberCall, panDebounce, pinchPeak, mounted, props, containerDimensions, contentDimensions, resetTimers,
                 panEvent, zoomStateCalls, parentCall, lastSnapInput>>

\* fingers land before the layout callbacks have delivered sizes
TouchDownBeforeLayout ==
  /\ mounted
  /\ jsIdle
  /\ ~laidOut
  /\ touches = 0
  /\ panState = "idle"
  /\ pinchState = "idle"
  /\ \E n \in 1..2 :
       /\ inputs + n <= InputBudget
       /\ inputs' = inputs + n
       /\ touches' = n
       /\ pinchState' = IF n = 2 THEN "starting" ELSE "idle"
       /\ lastInput' = Input("touch", n, 0)
       /\ \E x \in TouchStartXs :
            /\ touchX' = x
            /\ Commit(panOnTouchesDown(Cur, n, x))
  /\ panState' = "began"
  /\ UNCHANGED <<rubberCall, panDebounce, pinchPeak, mounted, props,
                 containerDimensions, contentDimensions, resetTimers, panEvent,
                 zoomStateCalls, parentCall, lastSnapInput>>

\* in the other phases onTouchesMove returns without doing anything
TouchMove ==
  /\ mounted
  /\ jsIdle
  /\ touches >= 1
  /\ panState = "began"
  /\ \E x \in TouchMoveXs :
       /\ x # touchX
       /\ touchX' = x
       /\ panState' = LET d == panOnTouchesMove(sv, touches, x)
                      IN CASE d = "activate" -> "starting"
                           [] d = "fail" -> "failed"
                           [] OTHER -> "began"
  /\ UNCHANGED <<rubberCall, panDebounce, pinchPeak, mounted, props, sv, containerDimensions, contentDimensions, jsQueue, resetTimers,
                 touches, pinchState, panEvent, lastInput, zoomStateCalls, parentCall,
                 lastSnapInput, inputs>>

\* a touch-move to the left of the point the touch started at
TouchMoveLeft ==
  /\ mounted
  /\ jsIdle
  /\ touches >= 1
  /\ panState = "began"
  /\ \E x \in TouchMoveLeftXs :
       /\ x # touchX
       /\ touchX' = x
       /\ panState' = LET d == panOnTouchesMove(sv, touches, x)
                      IN CASE d = "activate" -> "starting"
                           [] d = "fail" -> "failed"
                           [] OTHER -> "began"
  /\ UNCHANGED <<rubberCall, panDebounce, pinchPeak, mounted, props, sv, containerDimensions,
                 contentDimensions, jsQueue, resetTimers, touches, pinchState, panEvent,
                 lastInput, zoomStateCalls, parentCall, lastSnapInput, inputs>>

\* a touch-move while the pan is active; the event may report one finger more
\* or less than the touch sequence started with
TouchMoveWhileActive ==
  /\ mounted
  /\ jsIdle
  /\ touches >= 1
  /\ panState = "active"
  /\ \E x \in TouchMoveXs, n \in 1..2 :
       /\ x # touchX
       /\ touchX' = x
       /\ lastInput' = Input("move", n, 0)
       /\ panState' = LET d == panOnTouchesMoveInState(panState, sv, n, x)
                      IN CASE d = "activate" -> "starting"
                           [] d = "fail" -> "failed"
                           [] OTHER -> panState
  /\ UNCHANGED <<rubberCall, panDebounce, pinchPeak, mounted, props, sv, containerDimensions,
                 contentDimensions, jsQueue, resetTimers, touches, pinchState, panEvent,
                 zoomStateCalls, parentCall, lastSnapInput, inputs>>

TouchUp ==
  /\ mounted
  /\ jsIdle
  /\ touches >= 1
  /\ panState # "starting"
  /\ pinchState # "starting"
  /\ touches' = 0
  /\ touchX' = 0
  /\ pinchState' = IF pinchState = "active" THEN "ending" ELSE pinchState
  /\ \E v \in PanVelocities :
       IF panState = "active"
       THEN /\ panState' = "ending"
            /\ panEvent' = [panEvent EXCEPT !.velocityX = v[1], !.velocityY = v[2]]
       ELSE /\ panState' = "idle"
            /\ UNCHANGED panEvent
  /\ UNCHANGED <<rubberCall, panDebounce, pinchPeak, mounted, props, sv, containerDimensions, contentDimensions, jsQueue, resetTimers,
                 lastInput, zoomStateCalls, parentCall, lastSnapInput, inputs>>

----------------------------------------------------------------------------
(* Pan callbacks *)

PanStart ==
  /\ mounted
  /\ jsIdle
  /\ panState = "starting"
  /\ panState' = "active"
  /\ panEvent' = NoPanEvent
  /\ Commit(panOnStart(Cur))
  /\ UNCHANGED <<rubberCall, panDebounce, pinchPeak, mounted, props, containerDimensions, contentDimensions, resetTimers, touches, touchX,
                 pinchState, lastInput, zoomStateCalls, parentCall, lastSnapInput, inputs>>

PanUpdate ==
  /\ mounted
  /\ jsIdle
  /\ panState = "active"
  /\ \E t \in PanTranslations :
       /\ panEvent' = [panEvent EXCEPT !.translationX = t[1], !.translationY = t[2]]
       /\ Commit(panOnUpdate(Cur, panEvent'))
  /\ UNCHANGED <<rubberCall, panDebounce, pinchPeak, mounted, props, containerDimensions, contentDimensions, resetTimers, touches, touchX,
                 panState, pinchState, lastInput, zoomStateCalls, parentCall, lastSnapInput, inputs>>

\* a pan update whose finger has moved on both axes
PanUpdateDiagonal ==
  /\ mounted
  /\ jsIdle
  /\ panState = "active"
  /\ \E t \in DiagonalPanTranslations :
       /\ panEvent' = [panEvent EXCEPT !.translationX = t[1], !.translationY = t[2]]
       /\ Commit(panOnUpdate(Cur, panEvent'))
  /\ UNCHANGED <<rubberCall, panDebounce, pinchPeak, mounted, props,
                 containerDimensions, contentDimensions, resetTimers, touches, touchX,
                 panState, pinchState, lastInput, zoomStateCalls, parentCall,
                 lastSnapInput, inputs>>

PanEnd ==
  /\ mounted
  /\ jsIdle
  /\ panState = "ending"
  /\ panState' = "idle"
  /\ Commit(panOnEnd(Cur, panEvent))
  /\ lastSnapInput' = IF takesSnapBranch(sv)
                      THEN [overflow |-> sv.accumulatedOverflow, velocityX |-> panEvent.velocityX]
                      ELSE lastSnapInput
  /\ panEvent' = NoPanEvent
  /\ UNCHANGED <<rubberCall, panDebounce, pinchPeak, mounted, props, containerDimensions, contentDimensions, resetTimers, touches, touchX,
                 pinchState, lastInput, zoomStateCalls, parentCall, inputs>>

----------------------------------------------------------------------------
(* Pinch callbacks *)

PinchStart ==
  /\ mounted
  /\ jsIdle
  /\ pinchState = "starting"
  /\ pinchState' = "active"
  /\ \E f \in PinchStartFocals :
       Commit(pinchOnStart(Cur, [scale |-> SU, focalX |-> f[1], focalY |-> f[2]]))
  /\ pinchPeak' = sv.scale
  /\ UNCHANGED <<rubberCall, panDebounce, mounted, props, containerDimensions, contentDimensions, resetTimers, touches, touchX,
                 panState, panEvent, lastInput, zoomStateCalls, parentCall, lastSnapInput, inputs>>

PinchUpdate ==
  /\ mounted
  /\ jsIdle
  /\ pinchState = "active"
  /\ \E r \in PinchScales, f \in PinchFocals :
       Commit(pinchOnUpdate(Cur, [scale |-> r, focalX |-> f[1], focalY |-> f[2]]))
  /\ pinchPeak' = Max(pinchPeak, sv'.scale)
  /\ UNCHANGED <<rubberCall, panDebounce, mounted, props, containerDimensions, contentDimensions, resetTimers, touches, touchX,
                 panState, pinchState, panEvent, lastInput, zoomStateCalls, parentCall,
                 lastSnapInput, inputs>>

\* the update callback of the pinch, the ratio of the event kept in lastInput;
\* the y of lastInput alternates, so that two updates in a row differ
PinchUpdateRatio ==
  /\ mounted
  /\ jsIdle
  /\ pinchState = "active"
  /\ \E r \in PinchRatios, f \in PinchFocals :
       /\ Commit(pinchOnUpdate(Cur, [scale |-> r, focalX |-> f[1], focalY |-> f[2]]))
       /\ lastInput' = Input("pinch", r,
                             IF lastInput.kind = "pinch" THEN 1 - lastInput.y ELSE 0)
  /\ pinchPeak' = Max(pinchPeak, sv'.scale)
  /\ UNCHANGED <<rubberCall, panDebounce, mounted, props, containerDimensions, contentDimensions,
                 resetTimers, touches, touchX, panState, pinchState, panEvent,
                 zoomStateCalls, parentCall, lastSnapInput, inputs>>

PinchEnd ==
  /\ mounted
  /\ jsIdle
  /\ pinchState = "ending"
  /\ pinchState' = "idle"
  /\ Commit(pinchOnEnd(Cur))
  /\ pinchPeak' = 0
  /\ UNCHANGED <<rubberCall, panDebounce, mounted, props, containerDimensions, contentDimensions, resetTimers, touches, touchX,
                 panState, panEvent, lastInput, zoomStateCalls, parentCall, lastSnapInput, inputs>>

----------------------------------------------------------------------------
(* Animation runtime: a running animation reaches its end value *)

SettleScale ==
  /\ mounted
  /\ jsIdle
  /\ sv.scale # sv.scaleTo
  /\ sv' = [sv EXCEPT !.scale = sv.scaleTo]
  /\ UNCHANGED <<rubberCall, panDebounce, pinchPeak, mounted, props, containerDimensions, contentDimensions, jsQueue, resetTimers, touches,
                 touchX, panState, pinchState, panEvent, lastInput, zoomStateCalls, parentCall,
                 lastSnapInput, inputs>>

SettleTranslate ==
  /\ mounted
  /\ jsIdle
  /\ sv.translateX # sv.translateXTo \/ sv.translateY # sv.translateYTo
  /\ sv' = [sv EXCEPT !.translateX = sv.translateXTo, !.translateY = sv.translateYTo]
  /\ UNCHANGED <<rubberCall, panDebounce, pinchPeak, mounted, props, containerDimensions, contentDimensions, jsQueue, resetTimers, touches,
                 touchX, panState, pinchState, panEvent, lastInput, zoomStateCalls, parentCall,
                 lastSnapInput, inputs>>

----------------------------------------------------------------------------
(* Unmount: the component goes away between touch sequences.  The hook has *)
(* no cleanup: handlers and ref detach and the animations of its shared    *)
(* values are cancelled, timers set with setTimeout stay armed.            *)

Unmount ==
  /\ mounted
  /\ jsIdle
  /\ touches = 0
  /\ panState = "idle"
  /\ pinchState = "idle"
  /\ mounted' = FALSE
  /\ UNCHANGED <<rubberCall, panDebounce, pinchPeak, props, sv, containerDimensions, contentDimensions, jsQueue, resetTimers,
                 touches, touchX, panState, pinchState, panEvent, lastInput, zoomStateCalls,
                 parentCall, lastSnapInput, inputs>>

----------------------------------------------------------------------------
(* JS thread *)

JsOnZoomStateChange ==
  /\ jsQueue # << >>
  /\ Head(jsQueue).fn = "onZoomStateChange"
  /\ jsQueue' = Tail(jsQueue)
  /\ zoomStateCalls' = recordZoomStateCall(zoomStateCalls, Head(jsQueue).arg = 1)
  /\ UNCHANGED <<rubberCall, panDebounce, pinchPeak, mounted, props, sv, containerDimensions, contentDimensions, resetTimers, touches,
                 touchX, panState, pinchState, panEvent, lastInput, parentCall, lastSnapInput, inputs>>

\* variant: the test for scrollTo is not an else branch, a parent with both
\* methods receives the command on both
JsScrollParent_CallsBoth ==
  /\ jsQueue # << >>
  /\ Head(jsQueue).fn = "scrollParent"
  /\ jsQueue' = Tail(jsQueue)
  /\ parentCall' = IF scrollParentMethod = "none"
                   THEN parentCall
                   ELSE [method |-> IF props.parentScrollRef = "both"
                                    THEN "scrollToOffset, scrollTo"
                                    ELSE scrollParentMethod,
                         offset |-> Head(jsQueue).arg,
                         animated |-> Head(jsQueue).animated]
  /\ UNCHANGED <<rubberCall, panDebounce, pinchPeak, mounted, props, sv, containerDimensions, contentDimensions,
                 resetTimers, touches, touchX, panState, pinchState, panEvent, lastInput,
                 zoomStateCalls, lastSnapInput, inputs>>

JsScrollParent ==
  /\ jsQueue # << >>
  /\ Head(jsQueue).fn = "scrollParent"
  /\ jsQueue' = Tail(jsQueue)
  /\ parentCall' = IF scrollParentMethod = "none"
                   THEN parentCall
                   ELSE [method |-> scrollParentMethod, offset |-> Head(jsQueue).arg,
                         animated |-> Head(jsQueue).animated]
  /\ UNCHANGED <<rubberCall, panDebounce, pinchPeak, mounted, props, sv, containerDimensions, contentDimensions, resetTimers, touches,
                 touchX, panState, pinchState, panEvent, lastInput, zoomStateCalls,
                 lastSnapInput, inputs>>

JsResetZoomDelayed ==
  /\ jsQueue # << >>
  /\ Head(jsQueue).fn = "resetZoomDelayed"
  /\ resetTimers < MaxResetTimers
  /\ jsQueue' = Tail(jsQueue)
  /\ resetTimers' = resetTimers + 1
  /\ UNCHANGED <<rubberCall, panDebounce, pinchPeak, mounted, props, sv, containerDimensions, contentDimensions, touches, touchX,
                 panState, pinchState, panEvent, lastInput, zoomStateCalls, parentCall,
                 lastSnapInput, inputs>>

ResetTimerFires ==
  /\ resetTimers > 0
  /\ resetTimers' = resetTimers - 1
  /\ sv' = resetZoomNow(sv)
  /\ zoomStateCalls' = IF props.onZoomStateChange
                       THEN recordZoomStateCall(zoomStateCalls, FALSE)
                       ELSE zoomStateCalls
  /\ UNCHANGED <<rubberCall, panDebounce, pinchPeak, mounted, props, containerDimensions, contentDimensions, jsQueue, touches, touchX,
                 panState, pinchState, panEvent, lastInput, parentCall, lastSnapInput, inputs>>

----------------------------------------------------------------------------
(* Earlier revision (lines 503-1172): the debounce of the pan end *)

\* everything but the runOnJS queue and the debounce state
zoomVars == <<mounted, props, sv, containerDimensions, contentDimensions, resetTimers,
              touches, touchX, panState, pinchState, panEvent, lastInput,
              zoomStateCalls, parentCall, lastSnapInput, pinchPeak, rubberCall, inputs>>

\* applyPanDecay: the decay starts from velocity.value
applyPanDecay(d) ==
  [d EXCEPT !.decayRuns = @ + 1, !.decayVelocity = d.velocity]

\* variant: the pending timer is not cleared before the new one is set
handlePanOutside_NoClear(d) ==
  LET id == d.timeoutId + 1
  IN [d EXCEPT !.timeoutId = id,
               !.pending = d.pending \cup {id},
               !.callsSinceTimer = @ + 1]

\* handlePanOutside: clearTimeout of the stored id, then a new timer
handlePanOutside(d) ==
  LET cleared == IF d.timeoutId # 0 THEN d.pending \ {d.timeoutId} ELSE d.pending
      id == d.timeoutId + 1
  IN [d EXCEPT !.timeoutId = id,
               !.pending = cleared \cup {id},
               !.callsSinceTimer = @ + 1]

\* pan onEnd: stores the end velocity (v stands for velocityX / lastScale, the
\* scale is not part of the debounce state) and calls handlePanOutside through
\* runOnJS
DebouncedPanEnd ==
  /\ panDebounce.ends < MaxPanEnds
  /\ Len(jsQueue) < MaxJsQueue
  /\ \E v \in PanVelocities :
       panDebounce' = [panDebounce EXCEPT !.velocity = v[1], !.ends = @ + 1]
  /\ jsQueue' = Append(jsQueue, HandlePanOutsideMsg)
  /\ UNCHANGED zoomVars

\* onPinchEnd: a pinch that stays zoomed in runs applyPanDecay itself, at
\* once; a pinch that zooms out resets the offsets instead
DebouncedPinchEnd ==
  /\ panDebounce.ends < MaxPanEnds
  /\ \E staysZoomed \in BOOLEAN :
       panDebounce' = IF staysZoomed
                      THEN [applyPanDecay(panDebounce) EXCEPT !.ends = @ + 1]
                      ELSE [panDebounce EXCEPT !.ends = @ + 1]
  /\ UNCHANGED <<jsQueue, zoomVars>>

JsHandlePanOutside ==
  /\ jsQueue # << >>
  /\ Head(jsQueue).fn = "handlePanOutside"
  /\ jsQueue' = Tail(jsQueue)
  /\ panDebounce' = handlePanOutside(panDebounce)
  /\ UNCHANGED zoomVars

\* a pending timer of handlePanOutside expires after PAN_DEBOUNCE_MS
PanDebounceTimerFires ==
  /\ \E id \in panDebounce.pending :
       panDebounce' = applyPanDecay([panDebounce EXCEPT !.pending = @ \ {id},
                                                        !.callsSinceTimer = 0])
  /\ UNCHANGED <<jsQueue, zoomVars>>

NextDebounce ==
  \/ DebouncedPanEnd
  \/ DebouncedPinchEnd
  \/ JsHandlePanOutside
  \/ PanDebounceTimerFires

----------------------------------------------------------------------------
Next ==
  \/ OnLayout
  \/ OnLayoutContent
  \/ TapEnd
  \/ ZoomOutCall
  \/ TouchDown
  \/ TouchMove
  \/ TouchUp
  \/ PanStart
  \/ PanUpdate
  \/ PanEnd
  \/ PinchStart
  \/ PinchUpdate
  \/ PinchEnd
  \/ SettleScale
  \/ SettleTranslate
  \/ Unmount
  \/ JsOnZoomStateChange
  \/ JsScrollParent
  \/ JsResetZoomDelayed
  \/ ResetTimerFires

Spec == Init /\ [][Next]_vars

\* setTimeout runs its callback once the delay has passed
FairSpec == Spec /\ WF_vars(ResetTimerFires)

\* tap, pan and pinch composed with Gesture.Simultaneous: the tap's end
\* callback may also run between the callbacks of a pan on the same touch
NextSimultaneous == Next \/ TapEndBeforePanEnd

SpecSimultaneous == Init /\ [][NextSimultaneous]_vars

\* the same view mounted with a doubleTapConfig
SpecDoubleTap == InitDoubleTap /\ [][Next]_vars

\* a gallery item whose container and content are laid out again with other sizes
InitRelayout == props = GalleryProps("scrollToOffset", 1) /\ Mounted

NextRelayout == Next \/ Relayout

SpecRelayout == InitRelayout /\ [][NextRelayout]_vars

\* the same view mounted in a parent with both methods or with scrollTo only
SpecScrollable == InitScrollable /\ [][Next]_vars

\* the earlier revision's debounce, for a burst of pan and pinch ends
InitDebounce == props = DefaultProps /\ Mounted

SpecDebounce == InitDebounce /\ [][NextDebounce]_vars

\* the timer of handlePanOutside expires
FairSpecDebounce == SpecDebounce /\ WF_vars(PanDebounceTimerFires) /\ WF_vars(JsHandlePanOutside)

\* gallery items, with and without a usable parent, whose active pan goes on
\* receiving touch-moves
ActiveMovePropsSet ==
  { GalleryProps("scrollToOffset", 1),
    [DefaultProps EXCEPT !.enableSwipeToClose = TRUE] }

InitActiveMove == props \in ActiveMovePropsSet /\ Mounted

NextActiveMove == Next \/ TouchMoveWhileActive

SpecActiveMove == InitActiveMove /\ [][NextActiveMove]_vars

\* legacy edge hand-off: enableSwipeToClose without a parent to scroll.  No
\* handler queues scrollParent or resetZoomDelayed in this mode, so the steps
\* of the JS thread for them are left out.
LegacyProps == [DefaultProps EXCEPT !.enableSwipeToClose = TRUE]

InitLegacy == props = LegacyProps /\ Mounted

NextLegacy ==
  \/ OnLayout
  \/ OnLayoutContent
  \/ Relayout
  \/ TapEnd
  \/ TapEndFar
  \/ ZoomOutCall
  \/ TouchDown
  \/ TouchMove
  \/ TouchMoveLeft
  \/ TouchUp
  \/ PanStart
  \/ PanUpdate
  \/ PanEnd
  \/ PinchStart
  \/ PinchUpdate
  \/ PinchEnd
  \/ SettleScale
  \/ SettleTranslate
  \/ Unmount
  \/ JsOnZoomStateChange

SpecLegacy == InitLegacy /\ [][NextLegacy]_vars

\* the view mounted with a low maxScale and no parent to scroll, every pinch
\* update keeping its ratio
NextPinchRatio ==
  \/ OnLayout
  \/ OnLayoutContent
  \/ TapEnd
  \/ ZoomOutCall
  \/ TouchDown
  \/ TouchMove
  \/ TouchUp
  \/ PanStart
  \/ PanUpdate
  \/ PanEnd
  \/ PinchStart
  \/ PinchUpdateRatio
  \/ PinchEnd
  \/ SettleScale
  \/ SettleTranslate
  \/ Unmount
  \/ JsOnZoomStateChange

InitPinchRatio == props = [DefaultProps EXCEPT !.maxScale = 150] /\ Mounted

SpecPinchRatio == InitPinchRatio /\ [][NextPinchRatio]_vars

\* rubberBand on its own: the arguments are drawn at the start, the call
\* stores the result
RubberBandCall ==
  /\ ~rubberCall.called
  /\ rubberCall' = [rubberCall EXCEPT
                  !.called = TRUE,
                  !.result = rubberBand(rubberCall.value, rubberCall.min, rubberCall.max,
                                        rubberCall.dimension)]
  /\ UNCHANGED <<jsQueue, panDebounce, mounted, props, sv, containerDimensions,
                 contentDimensions, resetTimers, touches, touchX, panState, pinchState,
                 panEvent, lastInput, zoomStateCalls, parentCall, lastSnapInput,
                 pinchPeak, inputs>>

InitRubberBand ==
  /\ props = DefaultProps
  /\ MountedView
  /\ \E v \in RubberValues, b \in RubberBounds, d \in RubberDimensions :
       rubberCall = [value |-> v, min |-> -b, max |-> b, dimension |-> d,
                 called |-> FALSE, result |-> 0]

NextRubberBand == RubberBandCall

SpecRubberBand == InitRubberBand /\ [][NextRubberBand]_vars

\* gestures may also arrive before the layout callbacks, and the content may
\* be laid out empty; the view has no parent to scroll
InitBeforeLayout == props = [DefaultProps EXCEPT !.maxScale = 150] /\ Mounted

NextBeforeLayout ==
  \/ OnLayout
  \/ OnLayoutContent
  \/ OnLayoutContentEmpty
  \/ TapEnd
  \/ TapEndBeforeLayout
  \/ ZoomOutCall
  \/ TouchDown
  \/ TouchDownBeforeLayout
  \/ TouchMove
  \/ TouchUp
  \/ PanStart
  \/ PanUpdate
  \/ PanEnd
  \/ PinchStart
  \/ PinchUpdate
  \/ PinchEnd
  \/ SettleScale
  \/ SettleTranslate
  \/ Unmount
  \/ JsOnZoomStateChange

SpecBeforeLayout == InitBeforeLayout /\ [][NextBeforeLayout]_vars

\* a gallery item whose pans also move on both axes
InitGalleryPan == props = GalleryProps("scrollToOffset", 1) /\ Mounted

NextGalleryPan == Next \/ PanUpdateDiagonal

SpecGalleryPan == InitGalleryPan /\ [][NextGalleryPan]_vars

\* the first item of a gallery
InitFirstItem == props = GalleryProps("scrollToOffset", 0) /\ Mounted

SpecFirstItem == InitFirstItem /\ [][Next]_vars

\* the same view mounted with a low maxScale
SpecPinchPan == InitPinchPan /\ [][Next]_vars

\* the same view mounted with a parent that cannot be scrolled
SpecBridge == InitBridge /\ [][Next]_vars

AtRest ==
  /\ touches = 0
  /\ panState = "idle"
  /\ pinchState = "idle"
  /\ sv.scale = sv.scaleTo
  /\ sv.translateX = sv.translateXTo
  /\ sv.translateY = sv.translateYTo
  /\ jsQueue = << >>
  /\ resetTimers = 0

TypeOK ==
  /\ mounted \in BOOLEAN
  /\ props \in PropsSet \cup BridgePropsSet \cup DoubleTapPropsSet \cup PinchPanPropsSet
               \cup ScrollablePropsSet \cup {GalleryProps("scrollToOffset", 0)}
  /\ touches \in 0..2
  /\ panState \in {"idle", "began", "starting", "active", "ending", "failed"}
  /\ pinchState \in {"idle", "starting", "active", "ending"}
  /\ Len(jsQueue) <= MaxJsQueue
  /\ resetTimers \in 0..MaxResetTimers
  /\ inputs \in 0..InputBudget

----------------------------------------------------------------------------
(* Steps and states the properties speak about *)

GalleryMode == props.enableSwipeToClose /\ hasParentScroll

\* a recognised double tap
TapStep == lastInput'.kind = "tap" /\ inputs' = inputs + 1

\* a touch-move delivered to the pan gesture in its undetermined/began phase
TouchMoveStep == panState = "began" /\ touches >= 1 /\ touches' = touches /\ touchX' # touchX

\* the onEnd callback of the pan gesture
PanEndStep == panState = "ending" /\ panState' = "idle"

\* the zoomed test of the pan activation policy
Zoomed == sv.scale > props.minScale + ZOOMED_EPSILON

\* the identity state: scale = minScale, translation (0,0), not zoomed in, at rest
IdentityAtRest ==
  /\ AtRest
  /\ sv.scale = props.minScale
  /\ sv.translateX = 0
  /\ sv.translateY = 0
  /\ ~sv.isZoomedIn

\* the saved values of the identity state
SavedIdentity ==
  /\ sv.savedScale = props.minScale
  /\ sv.savedTranslateX = 0
  /\ sv.savedTranslateY = 0

----------------------------------------------------------------------------
(* C1 *)

\* C1: consecutive onZoomStateChange invocations carry alternating values and
\* the first invocation carries true.
C1_CallbackAlternates ==
  /\ zoomStateCalls.prev = "none" => zoomStateCalls.last \in {"none", "true"}
  /\ zoomStateCalls.prev # "none" => zoomStateCalls.last # zoomStateCalls.prev

----------------------------------------------------------------------------
(* C2 *)

\* C2: in every at-rest state the scale lies in [minScale, maxScale], for
\* every doubleTapConfig.
C2_ScaleInRangeAtRest ==
  AtRest => (props.minScale <= sv.scale /\ sv.scale <= props.maxScale)

----------------------------------------------------------------------------
(* C3 *)

\* C3: in every at-rest state the translation lies within the bounds computed
\* for the scale the view rests at.
C3_TranslationInBoundsAtRest ==
  AtRest => /\ Abs(sv.translateX) <= getTranslateBounds(sv.scale).maxX
            /\ Abs(sv.translateY) <= getTranslateBounds(sv.scale).maxY

----------------------------------------------------------------------------
(* C4 *)

\* C4: a double tap recognised at rest zooms out when the scale is above
\* minScale and otherwise zooms in to the double-tap target scale.
C4_DoubleTapToggles ==
  [][ (TapStep /\ AtRest) =>
        IF sv.scale > props.minScale
        THEN /\ sv'.scaleTo = props.minScale
             /\ sv'.translateXTo = 0
             /\ sv'.translateYTo = 0
             /\ ~sv'.isZoomedIn
        ELSE /\ sv'.scaleTo = doubleTapTargetScale
             /\ sv'.isZoomedIn ]_vars

----------------------------------------------------------------------------
(* C5 *)

\* C5: while the content is not zoomed in, a touch-move with one finger in the
\* began phase makes the pan fail (it never activates) and a touch-move with
\* two fingers activates it, for every setting of the gallery options.
C5_UnzoomedActivation ==
  [][ (TouchMoveStep /\ ~Zoomed) =>
        /\ touches = 1 => panState' = "failed"
        /\ touches = 2 => panState' = "starting" ]_vars

\* a single finger has moved on unzoomed content in gallery mode and the pan failed
C5_Witness ==
  /\ panState = "failed"
  /\ touches = 1
  /\ touchX \in TouchMoveXs
  /\ ~Zoomed
  /\ GalleryMode

----------------------------------------------------------------------------
(* C6 *)

\* C6 as stated: while the content is zoomed in, the first single-finger
\* touch-move in the began phase activates the pan, for every setting of
\* enableSwipeToClose / parentScrollRef.
C6_ZoomedActivationAlways ==
  [][ (TouchMoveStep /\ Zoomed /\ touches = 1) => panState' = "starting" ]_vars

\* C6: while the content is zoomed in, the first single-finger touch-move in
\* the began phase activates the pan, unless enableSwipeToClose is set without
\* a usable parent scroll (no parentScrollRef or itemWidth 0).
C6_ZoomedActivation ==
  [][ (TouchMoveStep /\ Zoomed /\ touches = 1
         /\ ~(props.enableSwipeToClose /\ ~hasParentScroll))
        => panState' = "starting" ]_vars

\* a single finger has moved on zoomed content in gallery mode and the pan activates
C6_Witness ==
  /\ panState = "starting"
  /\ touches = 1
  /\ touchX \in TouchMoveXs
  /\ Zoomed
  /\ GalleryMode

----------------------------------------------------------------------------
(* C7 *)

\* On one axis: focalOffset = f - center, t and s the translation and scale the
\* tap reads, t2 and s2 the translation and scale it animates to, b the bound
\* for s2.  The content point under the tap is (focalOffset - t) / s; products
\* replace the quotients and a translation is exact to one unit.
FocalKept(focalOffset, t, s, t2, s2, b) ==
  LET n == (focalOffset - t) * s2
  IN \/ /\ -b <= t2 /\ t2 <= b
        /\ Abs((focalOffset - t2) * s - n) < s
     \/ /\ t2 = b
        /\ (focalOffset - b) * s - n > -s
     \/ /\ t2 = -b
        /\ (focalOffset + b) * s - n < s

\* C7: a double-tap zoom-in keeps the point under the tap stationary,
\* (f - center - t')/s' = (f - center - t)/s, unless that translation lies
\* outside the bounds for s', and then t' is the bound on that side.
C7_FocalPointStationary ==
  [][ (TapStep /\ ~sv.isZoomedIn) =>
        LET b == getTranslateBounds(sv'.scaleTo)
        IN /\ FocalKept(lastInput'.x - (containerDimensions.width \div 2),
                        sv.translateX, sv.scale, sv'.translateXTo, sv'.scaleTo, b.maxX)
           /\ FocalKept(lastInput'.y - (containerDimensions.height \div 2),
                        sv.translateY, sv.scale, sv'.translateYTo, sv'.scaleTo, b.maxY) ]_vars

\* container and content 300x300, scale 1, tap (200,200), target 2: translation (-50,-50)
C7_Witness ==
  /\ lastInput = Input("tap", 200, 200)
  /\ containerDimensions = [width |-> 300, height |-> 300]
  /\ contentDimensions = [width |-> 300, height |-> 300]
  /\ sv.scale = 100
  /\ sv.translateX = 0
  /\ sv.translateY = 0
  /\ sv.scaleTo = 200
  /\ sv.translateXTo = -50
  /\ sv.translateYTo = -50

----------------------------------------------------------------------------
(* C8 *)

----------------------------------------------------------------------------
(* C9 *)

\* C9: in gallery mode a pan that ends with accumulated overflow of more than
\* 30% of itemWidth commands the parent to animate to the adjacent index in the
\* swipe direction and not to currentIndex, whatever the end velocity.
C9_SnapToAdjacent ==
  [][ (PanEndStep /\ GalleryMode /\ 10 * Abs(sv.accumulatedOverflow) > 3 * props.itemWidth) =>
        LET adjacent == IF sv.accumulatedOverflow < 0
                        THEN props.currentIndex + 1 ELSE props.currentIndex - 1
        IN /\ Len(jsQueue') >= 1
           /\ jsQueue'[1] = ScrollMsg(adjacent * props.itemWidth, TRUE)
           /\ \A i \in 1..Len(jsQueue') :
                jsQueue'[i] # ScrollMsg(props.currentIndex * props.itemWidth, TRUE) ]_vars

\* a swipe toward the next item past the threshold, released with velocity the
\* other way: the parent has received the animated command to the next index
C9_Witness ==
  /\ GalleryMode
  /\ 10 * lastSnapInput.overflow < -3 * props.itemWidth
  /\ lastSnapInput.velocityX > SNAP_VELOCITY
  /\ parentCall = [method |-> "scrollToOffset",
                   offset |-> (props.currentIndex + 1) * props.itemWidth,
                   animated |-> TRUE]

----------------------------------------------------------------------------
(* C10 *)

\* C10: in gallery mode a pan that ends with non-zero accumulated overflow of
\* at most 30% of itemWidth and end velocity of magnitude at most 500 commands
\* the parent to animate back to currentIndex * itemWidth and schedules no reset.
C10_SnapBack ==
  [][ (PanEndStep /\ GalleryMode /\ sv.accumulatedOverflow # 0
         /\ 10 * Abs(sv.accumulatedOverflow) <= 3 * props.itemWidth
         /\ Abs(panEvent.velocityX) <= SNAP_VELOCITY) =>
        jsQueue' = <<ScrollMsg(props.currentIndex * props.itemWidth, TRUE)>> ]_vars

\* a small overflow released at velocity 500 in its own direction: the parent
\* has received the animated command back to the current index, no reset pends
C10_Witness ==
  /\ GalleryMode
  /\ lastSnapInput.overflow > 0
  /\ 10 * lastSnapInput.overflow <= 3 * props.itemWidth
  /\ lastSnapInput.velocityX = SNAP_VELOCITY
  /\ parentCall = [method |-> "scrollToOffset",
                   offset |-> props.currentIndex * props.itemWidth,
                   animated |-> TRUE]
  /\ jsQueue = << >>
  /\ resetTimers = 0
  /\ panState = "idle"

----------------------------------------------------------------------------
(* C11 *)

\* the identity the view is committed to: the values every running animation
\* ends at, the saved values and the flag
CommittedIdentity ==
  /\ sv.scaleTo = props.minScale
  /\ sv.translateXTo = 0
  /\ sv.translateYTo = 0
  /\ SavedIdentity
  /\ ~sv.isZoomedIn

\* C11: a pan end that commands the parent to an adjacent index schedules the
\* delayed reset, and on a mounted view a pending reset leads to the timer
\* having fired with the view committed to identity: scale minScale, translation (0,0), saved values
\* likewise, isZoomedIn false.
C11_ResetAfterSnap ==
  /\ [][ (PanEndStep /\ takesSnapBranch(sv)
            /\ snapTarget(sv.accumulatedOverflow, panEvent.velocityX) # "current")
           => (Len(jsQueue') = 2 /\ jsQueue'[2] = ResetMsg) ]_vars
  /\ [][ (mounted /\ resetTimers' < resetTimers) => CommittedIdentity' ]_vars
  /\ (mounted /\ resetTimers > 0) ~> (~mounted \/ (resetTimers = 0 /\ CommittedIdentity))

\* a zoomed view was swiped to the next item and the timer has put it back to identity
C11_Witness ==
  /\ mounted
  /\ GalleryMode
  /\ lastInput.kind = "touch"
  /\ inputs = 2
  /\ parentCall.animated
  /\ parentCall.offset = (props.currentIndex + 1) * props.itemWidth
  /\ resetTimers = 0
  /\ zoomStateCalls = [prev |-> "true", last |-> "false"]
  /\ IdentityAtRest
  /\ SavedIdentity

----------------------------------------------------------------------------
(* C12 *)

\* C12: after unmount no callback of a pending delayed reset runs: no shared
\* value is written and onZoomStateChange is not called.
C12_ResetCancelledOnUnmount ==
  [][ ~mounted => (sv' = sv /\ zoomStateCalls' = zoomStateCalls) ]_vars

----------------------------------------------------------------------------
(* C13 *)

\* parentScrollRef is absent, or its current value is null, or the object it
\* refers to has neither scrollToOffset nor scrollTo
NoScrollableParent == props.parentScrollRef \in {"undefined", "null", "neither"}

----------------------------------------------------------------------------
(* C14 *)

\* the onEnd callback of the pinch gesture
PinchEndStep == pinchState = "ending" /\ pinchState' = "idle"

\* the onZoomStateChange invocations made so far, the one this step queues included
CallsWithQueued ==
  IF jsQueue' # << >> /\ jsQueue'[1].fn = "onZoomStateChange"
  THEN recordZoomStateCall(zoomStateCalls, jsQueue'[1].arg = 1)
  ELSE zoomStateCalls

\* C14: a pinch that is the first gesture on the view, starts unzoomed at
\* minScale, raises the live scale above minScale and is back at minScale when
\* the fingers lift has fired onZoomStateChange twice by its end: true, then false.
C14_PinchFiresTwice ==
  [][ (PinchEndStep /\ inputs = 2 /\ lastInput.kind = "touch"
         /\ sv.savedScale = props.minScale /\ pinchPeak > props.minScale
         /\ sv.scale = props.minScale)
        => CallsWithQueued = [prev |-> "true", last |-> "false"] ]_vars

----------------------------------------------------------------------------
(* C15 *)

\* C15: a double-tap zoom-in commits the scale clamp(T, minZoomScale ?? minScale,
\* maxZoomScale ?? maxScale), T being defaultScale when supplied and the fixed
\* 2x otherwise, whether or not minZoomScale is supplied.
C15_TargetScale ==
  [][ (TapStep /\ ~sv.isZoomedIn) =>
        LET T == Coalesce(props.defaultScale, DOUBLE_TAP_SCALE)
            committed == clamp(T, Coalesce(props.minZoomScale, props.minScale),
                                  Coalesce(props.maxZoomScale, props.maxScale))
        IN sv'.scaleTo = committed /\ sv'.savedScale = committed ]_vars

----------------------------------------------------------------------------
(* C16 *)

\* C16: in every at-rest state of the mounted view isZoomedIn is true exactly
\* when the scale exceeds minScale by more than the tolerance, the test the
\* pan activation uses.
C16_FlagMatchesScale ==
  (mounted /\ AtRest) => (sv.isZoomedIn <=> Zoomed)

----------------------------------------------------------------------------
(* C17 *)

\* an onUpdate callback of the pan gesture with a new translation
PanUpdateStep == panState = "active" /\ panState' = "active" /\ panEvent' # panEvent

\* container and content of equal size at scale 1 = minScale, nothing animating,
\* the gesture having started from translation (0,0)
UnzoomedEqualSize ==
  /\ laidOut
  /\ containerDimensions = contentDimensions
  /\ props.minScale = SU
  /\ sv.scale = SU
  /\ sv.scaleTo = SU
  /\ sv.savedTranslateX = 0
  /\ sv.savedTranslateY = 0

\* C17: with container and content of equal size at scale 1, a two-finger pan
\* leaves translateX and translateY at 0 on every update and after its end.
C17_UnzoomedPanKeepsTranslation ==
  [][ (UnzoomedEqualSize /\ ((PanUpdateStep /\ touches = 2) \/ PanEndStep)) =>
        /\ sv'.translateX = 0 /\ sv'.translateXTo = 0
        /\ sv'.translateY = 0 /\ sv'.translateYTo = 0 ]_vars

----------------------------------------------------------------------------
(* C18 *)

\* C18: when the last input was a double tap that zoomed out, whatever pan
\* callbacks its end callback interleaved with, the view rests at scale
\* minScale, translation (0,0) and isZoomedIn false.
C18_ZoomOutWins ==
  (mounted /\ AtRest /\ lastInput.kind = "tap" /\ zoomStateCalls.last = "false") =>
    /\ sv.scale = props.minScale
    /\ sv.translateX = 0
    /\ sv.translateY = 0
    /\ ~sv.isZoomedIn

----------------------------------------------------------------------------
(* C19 *)

SavedInBounds(s) ==
  /\ props.minScale <= s.savedScale /\ s.savedScale <= props.maxScale
  /\ Abs(s.savedTranslateX) <= getTranslateBounds(s.savedScale).maxX
  /\ Abs(s.savedTranslateY) <= getTranslateBounds(s.savedScale).maxY
  /\ Abs(s.translateX) <= getTranslateBounds(s.savedScale).maxX
  /\ Abs(s.translateY) <= getTranslateBounds(s.savedScale).maxY

\* C19: once a touch sequence's pan and pinch callbacks have all run, in any
\* order, and the animations have settled, the saved scale lies in
\* [minScale, maxScale] and the saved and the displayed translation lie within
\* the translation bounds of that saved scale.
C19_SavedStateInBounds ==
  (mounted /\ AtRest /\ jsIdle /\ resetTimers = 0 /\ lastInput = Input("touch", 2, 0))
    => SavedInBounds(sv)

----------------------------------------------------------------------------
(* C20 *)

\* the shared zoom values, with the end values of their running animations
ZoomState(s) ==
  <<s.scale, s.scaleTo, s.translateX, s.translateXTo, s.translateY, s.translateYTo,
    s.savedScale, s.savedTranslateX, s.savedTranslateY, s.isZoomedIn>>

\* a step of the JS context: a layout handler, a function called through
\* runOnJS, or a timer callback
JsContextStep ==
  \/ containerDimensions' # containerDimensions
  \/ contentDimensions' # contentDimensions
  \/ Len(jsQueue') < Len(jsQueue)
  \/ resetTimers' < resetTimers

\* C20: no step of the JS context (layout handlers, runOnJS targets, timer
\* callbacks) writes scale, translateX/Y, savedScale, savedTranslateX/Y or
\* isZoomedIn.
C20_JsContextWritesNothing ==
  [][ JsContextStep => ZoomState(sv') = ZoomState(sv) ]_vars

----------------------------------------------------------------------------
(* C21 *)

\* C21: a pan callback (update or end) of a two-finger touch sequence, or of
\* any pan while the content is at minScale, queues no call for the JS thread:
\* no parent scroll command and no snap to an adjacent index.
C21_BridgeOnlyOneFingerZoomed ==
  [][ ((PanUpdateStep \/ PanEndStep)
         /\ (lastInput = Input("touch", 2, 0) \/ ~Zoomed))
        => jsQueue' = jsQueue ]_vars

----------------------------------------------------------------------------
(* C22 *)

\* C22: in gallery mode, a pan update whose translation newTx = saved + event
\* translation passes the horizontal bound queues exactly one scroll command
\* with offset currentIndex * itemWidth - overflow, not animated, records the
\* overflow and pins translateX at the bound it passed; an update within the
\* bounds queues nothing and records overflow 0.
C22_OverflowForwarded ==
  [][ (PanUpdateStep /\ GalleryMode) =>
        LET maxX == getTranslateBounds(sv.scale).maxX
            newTx == sv.savedTranslateX + panEvent'.translationX
        IN /\ newTx > maxX =>
                /\ jsQueue' = <<ScrollMsg(props.currentIndex * props.itemWidth - (newTx - maxX),
                                          FALSE)>>
                /\ sv'.translateX = maxX
                /\ sv'.accumulatedOverflow = newTx - maxX
           /\ newTx < -maxX =>
                /\ jsQueue' = <<ScrollMsg(props.currentIndex * props.itemWidth - (newTx + maxX),
                                          FALSE)>>
                /\ sv'.translateX = -maxX
                /\ sv'.accumulatedOverflow = newTx + maxX
           /\ (-maxX <= newTx /\ newTx <= maxX) =>
                /\ jsQueue' = << >>
                /\ sv'.accumulatedOverflow = 0 ]_vars

\* a one-finger pan on zoomed content pushes past the right edge: the parent
\* has received the command for that overflow and translateX sits at -maxX
C22_Witness ==
  /\ GalleryMode
  /\ Zoomed
  /\ touches = 1
  /\ panState = "active"
  /\ sv.accumulatedOverflow < 0
  /\ sv.translateX = -getTranslateBounds(sv.scale).maxX
  /\ parentCall = [method |-> "scrollToOffset",
                   offset |-> props.currentIndex * props.itemWidth - sv.accumulatedOverflow,
                   animated |-> FALSE]

----------------------------------------------------------------------------
(* C23 *)

\* C23: in gallery mode a pan that ends with non-zero accumulated overflow of
\* at most 30% of itemWidth commands the parent to animate to the adjacent
\* index when the end velocity is beyond 500 in the direction of the overflow,
\* and back to currentIndex when it is at most 500 in magnitude or points the
\* other way.
C23_SmallOverflowSnap ==
  [][ (PanEndStep /\ GalleryMode /\ sv.accumulatedOverflow # 0
         /\ 10 * Abs(sv.accumulatedOverflow) <= 3 * props.itemWidth) =>
        LET overflow == sv.accumulatedOverflow
            velocity == panEvent.velocityX
            sameDirection == (overflow < 0 /\ velocity < 0) \/ (overflow > 0 /\ velocity > 0)
            adjacent == IF overflow < 0 THEN props.currentIndex + 1 ELSE props.currentIndex - 1
            index == IF Abs(velocity) > SNAP_VELOCITY /\ sameDirection
                     THEN adjacent ELSE props.currentIndex
        IN /\ Len(jsQueue') >= 1
           /\ jsQueue'[1] = ScrollMsg(index * props.itemWidth, TRUE) ]_vars

\* a small overflow toward the previous item released at velocity 600 in its
\* own direction: the parent has received the animated command to that item
C23_Witness ==
  /\ GalleryMode
  /\ lastSnapInput.overflow > 0
  /\ 10 * lastSnapInput.overflow <= 3 * props.itemWidth
  /\ lastSnapInput.velocityX > SNAP_VELOCITY
  /\ parentCall = [method |-> "scrollToOffset",
                   offset |-> (props.currentIndex - 1) * props.itemWidth,
                   animated |-> TRUE]

----------------------------------------------------------------------------
(* C24 *)

\* the end value of a decay from `from` with velocity v clamped to [-max, max]
\* lies in the range, on the side of `from` the velocity points to
DecayEnd(to, from, v, max) ==
  /\ -max <= to /\ to <= max
  /\ v = 0 => to = from
  /\ v > 0 => to >= from
  /\ v < 0 => to <= from

\* C24: a pan end outside the gallery hand-off, reading bounds for the current
\* scale: with the translation within bounds on both axes each axis decays
\* from the end velocity, clamped to the bounds; with the translation out of
\* bounds on either axis both axes animate to the current value clamped into
\* the bounds; the saved translation it writes lies within the bounds.
C24_ReleaseWithinBounds ==
  [][ (PanEndStep /\ ~takesSnapBranch(sv)) =>
        LET bounds == getTranslateBounds(sv.scale)
            outOfBounds == \/ Abs(sv.translateX) > bounds.maxX
                           \/ Abs(sv.translateY) > bounds.maxY
        IN /\ ~outOfBounds =>
                /\ DecayEnd(sv'.translateXTo, sv.translateX, panEvent.velocityX, bounds.maxX)
                /\ DecayEnd(sv'.translateYTo, sv.translateY, panEvent.velocityY, bounds.maxY)
           /\ outOfBounds =>
                /\ sv'.translateXTo = clamp(sv.translateX, -bounds.maxX, bounds.maxX)
                /\ sv'.translateYTo = clamp(sv.translateY, -bounds.maxY, bounds.maxY)
           /\ sv'.translateX = sv.translateX
           /\ sv'.translateY = sv.translateY
           /\ Abs(sv'.savedTranslateX) <= bounds.maxX
           /\ Abs(sv'.savedTranslateY) <= bounds.maxY ]_vars

\* a one-finger pan on a zoomed view outside gallery mode was released out of
\* bounds with a velocity: the spring back to the bound is running
C24_Witness ==
  /\ ~GalleryMode
  /\ lastInput = Input("touch", 1, 0)
  /\ touches = 0
  /\ panState = "idle"
  /\ Zoomed
  /\ Abs(sv.translateX) > getTranslateBounds(sv.scale).maxX
  /\ Abs(sv.translateXTo) = getTranslateBounds(sv.scale).maxX
  /\ Abs(sv.savedTranslateX) <= getTranslateBounds(sv.scale).maxX
  /\ ~sv.isPanning

----------------------------------------------------------------------------
(* C25 *)

\* the translation bounds of the scale hard-clamped into [minScale, maxScale]
HardBounds(currentScale) ==
  getTranslateBounds(clamp(currentScale, props.minScale, props.maxScale))

\* C25: the saved values a gesture end writes are never rubber-banded ones:
\* pinch end saves a scale in [minScale, maxScale], and pinch end and the
\* release branch of pan end save a translation within the translation bounds
\* of the hard-clamped scale.
C25_SavedValuesHardClamped ==
  [][ /\ PinchEndStep =>
           /\ props.minScale <= sv'.savedScale /\ sv'.savedScale <= props.maxScale
           /\ Abs(sv'.savedTranslateX) <= HardBounds(sv.scale).maxX
           /\ Abs(sv'.savedTranslateY) <= HardBounds(sv.scale).maxY
      /\ (PanEndStep /\ ~takesSnapBranch(sv)) =>
           /\ Abs(sv'.savedTranslateX) <= HardBounds(sv.scale).maxX
           /\ Abs(sv'.savedTranslateY) <= HardBounds(sv.scale).maxY ]_vars

----------------------------------------------------------------------------
(* C26 *)

\* the scales the bound of the current scale is compared with
BoundScales == { 50, 100, 150, 200, 400 }

\* how far the content at a scale exceeds the container, in hundredths
ExcessWidth(currentScale) ==
  Max(0, contentDimensions.width * currentScale - containerDimensions.width * SU)

ExcessHeight(currentScale) ==
  Max(0, contentDimensions.height * currentScale - containerDimensions.height * SU)

\* bounds that are 0 when the content fits and never shrink as the scale grows
BoundsZeroAndMonotone ==
  /\ ExcessWidth(sv.scale) = 0 => getTranslateBounds(sv.scale).maxX = 0
  /\ ExcessHeight(sv.scale) = 0 => getTranslateBounds(sv.scale).maxY = 0
  /\ \A k \in BoundScales \cup {sv.scaleTo, sv.savedScale} :
       /\ k <= sv.scale =>
            /\ getTranslateBounds(k).maxX <= getTranslateBounds(sv.scale).maxX
            /\ getTranslateBounds(k).maxY <= getTranslateBounds(sv.scale).maxY
       /\ k >= sv.scale =>
            /\ getTranslateBounds(k).maxX >= getTranslateBounds(sv.scale).maxX
            /\ getTranslateBounds(k).maxY >= getTranslateBounds(sv.scale).maxY

----------------------------------------------------------------------------
(* C27 *)

\* the JS thread runs a queued scrollParent call
ScrollParentStep ==
  /\ jsQueue # << >>
  /\ Head(jsQueue).fn = "scrollParent"
  /\ jsQueue' = Tail(jsQueue)

\* C27: a scroll command goes to exactly one method of the parent, with the
\* command's offset and animated flag: to scrollToOffset when the parent
\* exposes it (alone or next to scrollTo), to scrollTo when that is the only
\* method it exposes.
C27_OneMethodPerCommand ==
  [][ ScrollParentStep =>
        /\ props.parentScrollRef \in {"scrollToOffset", "both"} =>
             parentCall' = [method |-> "scrollToOffset",
                            offset |-> Head(jsQueue).arg,
                            animated |-> Head(jsQueue).animated]
        /\ props.parentScrollRef = "scrollTo" =>
             parentCall' = [method |-> "scrollTo",
                            offset |-> Head(jsQueue).arg,
                            animated |-> Head(jsQueue).animated] ]_vars

\* a parent with both methods has received an animated command on scrollToOffset
C27_Witness ==
  /\ props.parentScrollRef = "both"
  /\ parentCall.method = "scrollToOffset"
  /\ parentCall.animated
  /\ jsQueue = << >>

----------------------------------------------------------------------------
(* C28 *)

\* the JS thread runs a queued handlePanOutside call
HandlePanOutsideStep ==
  /\ jsQueue # << >>
  /\ Head(jsQueue).fn = "handlePanOutside"
  /\ jsQueue' = Tail(jsQueue)

\* a timer of handlePanOutside expires
DebounceTimerStep == panDebounce'.pending # panDebounce.pending /\ jsQueue' = jsQueue

\* at most one timer pends, and a call of handlePanOutside leaves its own
\* timer as the only pending one
OnePendingTimer ==
  /\ [](Cardinality(panDebounce.pending) <= 1)
  /\ [][ HandlePanOutsideStep =>
           /\ panDebounce'.timeoutId \notin panDebounce.pending
           /\ panDebounce'.pending = {panDebounce'.timeoutId} ]_vars

----------------------------------------------------------------------------
(* C29 *)

\* C29: while fingers stay down an active pan stays active: no step, and in
\* particular no touch-move, whatever finger count it reports and whatever the
\* zoom state has become, makes it fail or activate again.
C29_ActiveStaysActive ==
  [][ (panState = "active" /\ touches' # 0) => panState' = "active" ]_vars

\* a pan that started with two fingers has received a touch-move reporting one
\* finger on zoomed content and is still active
C29_Witness ==
  /\ panState = "active"
  /\ touches = 2
  /\ lastInput.kind = "move"
  /\ lastInput.x = 1
  /\ Zoomed

----------------------------------------------------------------------------
(* C30 *)

\* enableSwipeToClose without a usable parent scroll
LegacyMode == props.enableSwipeToClose /\ ~hasParentScroll

\* C30: in legacy mode a one-finger touch-move on zoomed content in the began
\* phase makes the pan fail when no horizontal panning is possible (maxX = 0);
\* otherwise takes no decision while the finger is less than 5 from where it
\* landed; otherwise makes it fail when the touch landed at the left edge and
\* has moved right, or landed at the right edge and has moved left; and
\* activates the pan in every other case.
C30_LegacyEdgeHandOff ==
  [][ (TouchMoveStep /\ LegacyMode /\ Zoomed /\ touches = 1) =>
        LET deltaX == touchX' - sv.panStartX
            maxX == getTranslateBounds(sv.scale).maxX
        IN panState' =
             IF maxX = 0 THEN "failed"
             ELSE IF Abs(deltaX) < 5 THEN "began"
             ELSE IF (sv.isAtLeftEdge /\ deltaX >= 5) \/ (sv.isAtRightEdge /\ deltaX <= -5)
                  THEN "failed"
             ELSE "starting" ]_vars

\* zoomed content resting at its right edge, the finger landed there and has
\* moved left: the pan has failed
C30_Witness ==
  /\ LegacyMode
  /\ Zoomed
  /\ touches = 1
  /\ getTranslateBounds(sv.scale).maxX > 0
  /\ sv.translateX = -getTranslateBounds(sv.scale).maxX
  /\ sv.isAtRightEdge
  /\ ~sv.isAtLeftEdge
  /\ touchX < sv.panStartX
  /\ panState = "failed"

----------------------------------------------------------------------------
(* C31 *)

\* the onUpdate callback of the pinch gesture, its ratio in lastInput
PinchRatioStep ==
  pinchState = "active" /\ lastInput'.kind = "pinch" /\ lastInput' # lastInput

\* C31: after every update of a live pinch the scale lies within
\* [0.5 * minScale, 1.5 * maxScale], and it equals savedScale * ratio whenever
\* that product lies within [minScale, maxScale].
C31_LiveScaleRubberBanded ==
  [][ PinchRatioStep =>
        LET newScale == Div(sv.savedScale * lastInput'.x, SU)
        IN /\ sv'.scale * SU >= props.minScale * MIN_OVER_SCALE
           /\ sv'.scale * SU <= props.maxScale * 150
           /\ (newScale >= props.minScale /\ newScale <= props.maxScale)
                => sv'.scale = newScale ]_vars

\* a live pinch held at the upper limit 1.5 * maxScale, above maxScale
C31_Witness ==
  /\ pinchState = "active"
  /\ lastInput.kind = "pinch"
  /\ sv.scale > props.maxScale
  /\ sv.scale * SU = props.maxScale * 150

----------------------------------------------------------------------------
(* C32 *)

\* the distance of the result of the call from the bound the value lies beyond
RubberDistance ==
  IF rubberCall.value < rubberCall.min THEN rubberCall.min - rubberCall.result
  ELSE rubberCall.result - rubberCall.max

RubberOverscroll ==
  IF rubberCall.value < rubberCall.min THEN rubberCall.min - rubberCall.value
  ELSE rubberCall.value - rubberCall.max

RubberOutside == rubberCall.value < rubberCall.min \/ rubberCall.value > rubberCall.max

\* the result is unchanged inside the range and does not decrease with the value
RubberIdentityAndMonotone ==
  /\ ~RubberOutside => rubberCall.result = rubberCall.value
  /\ \A w \in RubberValues :
       /\ w <= rubberCall.value
            => rubberBand(w, rubberCall.min, rubberCall.max, rubberCall.dimension) <= rubberCall.result
       /\ w >= rubberCall.value
            => rubberBand(w, rubberCall.min, rubberCall.max, rubberCall.dimension) >= rubberCall.result

\* C32 as stated: rubberBand returns a value inside [min, max] unchanged; for
\* a value outside, the result is on the value's side of the bound, strictly
\* closer to the bound than the value, less than dimension away from the
\* bound, and it does not decrease when the value grows.
C32_RubberBandCompresses ==
  rubberCall.called =>
    /\ RubberIdentityAndMonotone
    /\ RubberOutside =>
         /\ RubberDistance >= 0
         /\ RubberDistance < RubberOverscroll
         /\ RubberDistance < rubberCall.dimension

\* C32, amended: as stated when dimension > 0, the result then lying strictly
\* beyond the bound; with dimension 0 the result of a value outside the range
\* is the bound itself.
C32_RubberBandCompressesOrPins ==
  rubberCall.called =>
    /\ RubberIdentityAndMonotone
    /\ (RubberOutside /\ rubberCall.dimension > 0) =>
         /\ RubberDistance > 0
         /\ RubberDistance < RubberOverscroll
         /\ RubberDistance < rubberCall.dimension
    /\ (RubberOutside /\ rubberCall.dimension = 0) => RubberDistance = 0

\* a call with a value far outside the range of a laid-out container: the
\* result is more than a third of the container beyond the bound
C32_Witness ==
  /\ rubberCall.called
  /\ RubberOutside
  /\ rubberCall.dimension = 100
  /\ RubberOverscroll > 4 * rubberCall.dimension
  /\ 3 * RubberDistance > rubberCall.dimension

----------------------------------------------------------------------------
(* C33 *)

\* the content has width 0, or the container is still 0x0
BeforeLayout ==
  \/ contentDimensions.width = 0
  \/ (containerDimensions.width = 0 /\ containerDimensions.height = 0)

\* C33: before the content is laid out the aspect-fit size has height 0, the
\* translation bounds are (0,0), and scale and translation are at identity,
\* whatever gestures have arrived.
C33_InertBeforeLayout ==
  BeforeLayout =>
    /\ getContentContainerSize.height = 0
    /\ getTranslateBounds(sv.scale) = [maxX |-> 0, maxY |-> 0]
    /\ sv.scale = props.minScale
    /\ sv.scaleTo = props.minScale
    /\ sv.translateX = 0
    /\ sv.translateXTo = 0
    /\ sv.translateY = 0
    /\ sv.translateYTo = 0

----------------------------------------------------------------------------
(* C34 *)

\* C34: a gallery-mode pan update that forwards overflow to the parent leaves
\* translateY as it was, whatever the vertical translation of the event, and
\* pins translateX at the bound.
C34_HandoffKeepsVertical ==
  [][ (PanUpdateStep /\ GalleryMode /\ sv'.accumulatedOverflow # 0) =>
        /\ sv'.translateY = sv.translateY
        /\ sv'.translateYTo = sv.translateYTo
        /\ Abs(sv'.translateX) = getTranslateBounds(sv.scale).maxX ]_vars

\* the finger has moved down and right past the left edge of zoomed content
\* that can pan vertically: the overflow went to the parent and translateY
\* still is the value the pan started from
C34_Witness ==
  /\ GalleryMode
  /\ Zoomed
  /\ panState = "active"
  /\ panEvent.translationY = 300
  /\ panEvent.translationX = 299
  /\ sv.accumulatedOverflow > 0
  /\ getTranslateBounds(sv.scale).maxY > 0
  /\ sv.translateY = sv.savedTranslateY
  /\ parentCall.offset = props.currentIndex * props.itemWidth - sv.accumulatedOverflow

----------------------------------------------------------------------------
(* C35 *)

\* the scroll commands in a runOnJS queue
ScrollCommands(q) == SelectSeq(q, LAMBDA m : m.fn = "scrollParent")

\* C35: a gallery-mode pan end with accumulated overflow queues exactly one
\* scroll command, animated, to the offset of the next, the previous or the
\* current index, resets the accumulated overflow, and leaves translation and
\* saved translation as they were.
C35_OverflowEndSnapsOnce ==
  [][ (PanEndStep /\ GalleryMode /\ sv.accumulatedOverflow # 0) =>
        LET cmds == ScrollCommands(jsQueue')
        IN /\ Len(cmds) = 1
           /\ cmds[1].animated
           /\ cmds[1].arg \in { (props.currentIndex + 1) * props.itemWidth,
                                (props.currentIndex - 1) * props.itemWidth,
                                props.currentIndex * props.itemWidth }
           /\ sv'.accumulatedOverflow = 0
           /\ sv'.translateX = sv.translateX
           /\ sv'.translateXTo = sv.translateXTo
           /\ sv'.translateY = sv.translateY
           /\ sv'.translateYTo = sv.translateYTo
           /\ sv'.savedTranslateX = sv.savedTranslateX
           /\ sv'.savedTranslateY = sv.savedTranslateY ]_vars

\* a pan that ended with a small overflow: the parent was sent back to the
\* current index, and the view still sits at the bound it was pinned to,
\* away from its saved translation
C35_Witness ==
  /\ GalleryMode
  /\ panState = "idle"
  /\ lastSnapInput.overflow # 0
  /\ sv.accumulatedOverflow = 0
  /\ parentCall.animated
  /\ parentCall.offset = props.currentIndex * props.itemWidth
  /\ sv.translateX # sv.savedTranslateX

----------------------------------------------------------------------------
(* C36 *)

\* C36: no scroll command queued for the parent, by a pan update or a pan
\* end, carries a negative offset.
C36_NoNegativeOffset ==
  \A i \in 1..Len(jsQueue) :
    jsQueue[i].fn = "scrollParent" => jsQueue[i].arg >= 0

----------------------------------------------------------------------------
(* C37 *)

\* C37: a delayed zoom reset is scheduled only after a snap to an adjacent
\* index has been delivered to a scroll method of the parent.
C37_ResetOnlyAfterDeliveredSnap ==
  [][ resetTimers' > resetTimers =>
        /\ parentCall.method \in {"scrollToOffset", "scrollTo"}
        /\ parentCall.animated
        /\ parentCall.offset \in { (props.currentIndex + 1) * props.itemWidth,
                                   (props.currentIndex - 1) * props.itemWidth } ]_vars

====
